\* One submission after the other, each with any answer.
CONSTANT None = None
SPECIFICATION Spec
INVARIANTS TypeOK AnswersAreTrue JournalNamesThePost GoesOnWhenSettled AnswersAreRecorded
