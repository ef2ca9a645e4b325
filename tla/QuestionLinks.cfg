SPECIFICATION Spec
CONSTANTS
  b1 = b1
  c1 = c1
  Tags = {t1, t2}
  Books = {b1, b2}
  Chapters = {c1}
  BookOf <- MCBookOf
  Clients = {p1, p2}
  None = None
  Faults = {"db"}
INVARIANTS TypeOK ChaptersFit NobodyIsStuck
PROPERTIES ReplacesAll LinksChangeAsAsked
SYMMETRY Symmetry
CHECK_DEADLOCK FALSE
