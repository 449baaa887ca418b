\* Two requests at a time, of the creator and somebody else, five in all; the
\* capacity is raised and lowered, the competition opened and closed.
CONSTANTS
    Users = {"ann", "bob"}
    Creator = "ann"
    GlobalAdmins = {}
    h1 = h1
    h2 = h2
    Handlers = {h1, h2}
    Capacities = {1, 2}
    RowIds = {1, 2, 3, 4, 5, 6}
    MaxRequests = 5
SPECIFICATION Spec
SYMMETRY HandlerSymmetry
INVARIANTS UsesAreCounted CreatorStays MembersWereLetIn OvershootIsBounded
