CONSTANTS
  Scopes = {1, 2}
  Subs = {u1}
  Publishers = {p1}
  MaxPubs = 2
SPECIFICATION Spec
PROPERTY NeverBackwards
