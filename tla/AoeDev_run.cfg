CONSTANTS
    d1 = d1  d2 = d2  a1 = a1  a2 = a2  c1 = c1
    w1 = w1  w2 = w2  p1 = p1  p2 = p2  o1 = o1
    None = None
    Dev = {d1, d2}
    Addr = {a1, a2}
    Minor = {0, 1}
    Dyn = TRUE
    StaticMinor <- NoStatic
    Ctx = {c1}
    Worker = {w1}
    Flusher = {p1}
    Opener = {o1}
    Modes = {"down", "all"}
SYMMETRY DevSymmetry
SPECIFICATION Spec
INVARIANTS TypeOK RefProtects OpenProtects OnlyLateUses DisksDistinct
