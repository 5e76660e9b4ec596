CONSTANTS
  Tokens = {t1}
  Clients = {r1, r2}
SPECIFICATION RedisSpec
PROPERTIES RedeemsOnce
