\* Paths of every length about the ends of words and of the buffer, and every edge of memory about them.
SPECIFICATION Spec
CONSTANTS
  Char <- Letters
  Image <- Images
  Edge <- Edges
  Scribble <- Writes
  Rest = {"+"}
  WORD = 6
  WORDS = 4
INVARIANTS TypeOK InBounds NameOfPath ExitsAtEdge PeerNamed
CHECK_DEADLOCK FALSE
