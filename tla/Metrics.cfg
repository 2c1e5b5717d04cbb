\* Two requests for one route, or for another path, and a histogram of two bounds.
SPECIFICATION Spec
CONSTANTS
    Requests = {r1, r2}
    Routes = {query}
    Other = Other
    Admission = Admission
    BUCKETS = 2
SYMMETRY Symmetry
INVARIANTS TypeOK ScrapeBetween
