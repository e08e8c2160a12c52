SPECIFICATION Spec
CONSTANTS
  Commands <- WithEmptyCall
  Replies = {7, 8}
  None = None
  MaxCredits = 1
INVARIANTS TypeOK NoOverrun BooksAgree
PROPERTY Transfers
