\* Two calls, a limit of one row: a statement returns more and changes rows.
SPECIFICATION Spec
CONSTANTS
    Requests = {r1, r2}
    Calls <- Bodies
    RowLimit = 1
    Readers = {d}
    Nobody = Nobody
    Pool = Pool
INVARIANT EffectReported
