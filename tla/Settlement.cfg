\* Two overlapping handlers, one contribution.
SPECIFICATION Spec
CONSTANTS
    Sessions = {s1, s2}
    Invoices = {i1}
    Handlers = {"update", "save", "switch", "invoice"}
INVARIANTS
    TypeOK
    DirectIsPayable
    NothingStranded
SYMMETRY Symmetry
