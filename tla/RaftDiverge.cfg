CONSTANTS
  a = a  b = b  c = c
  v = v  w = w  x = x  y = y  z = z
  Server = {a, b, c}
  Nobody = Nobody
  Cmd = {v, w, x, y, z}
SPECIFICATION ScriptSpec
INVARIANT SameCommands
