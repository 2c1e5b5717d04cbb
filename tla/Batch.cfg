\* Two calls, a limit of one row.
SPECIFICATION FairSpec
CONSTANTS
    Requests = {r1, r2}
    Calls <- Bodies
    RowLimit = 1
    Readers = {d}
    Nobody = Nobody
    Pool = Pool
INVARIANTS TypeOK AllOrNothing AnswersHonest OneTransaction TruncatedMeansMore QueryOnlyReads
PROPERTIES WriterReturns ImplementsAtomicBatch
