\* A table of three places and files of up to five servers, at four distances: ties, shifts
\* and servers that fall off the end.
CONSTANTS
  NEAREST_SERVERS_NUM = 3
  Urls = {u1, u2}
  Distances = {1, 2, 3, 4}
  MaxLines = 5
  NoUrl = NoUrl
SPECIFICATION Spec
INVARIANT TableOfNearest
