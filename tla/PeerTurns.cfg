CONSTANTS
    p1 = p1
    p2 = p2
    r1 = r1
    r2 = r2
    yes = yes
    no = no
    Runtimes <- RuntimesTwo
    Requests <- RequestsTwo
    Past <- OtherRequest
    Watched <- RequestsTwo
    Answers <- AnswersTwo
    Rejection = rejection
    NoReply = noreply
    NoRuntime = noruntime
    MaxRecords = 1
    MaxAtOnce = 2
    Faulty <- RequestsTwo
SPECIFICATION Spec
SYMMETRY Symmetry
PROPERTY ImplementsContract
INVARIANTS TypeOK ToldTruly AnswerKnown LedgerWitnessed NotesBehind
