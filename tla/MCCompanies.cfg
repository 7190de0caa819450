\* Two companies, one of them also in an older build's directory.
SPECIFICATION Spec
CONSTANTS
    Companies = {"legacy", "acme"}
    Old <- OldOnes
    MaxRestarts = 1
INVARIANTS
    TypeOK
    DeletedStayAway
    ShownAreListed
    NoResurrection
CHECK_DEADLOCK FALSE
