SPECIFICATION Spec

CONSTANTS
    Entries = {e1, e2, e3, e4, e5}
    head = head
    NULL = NULL

INVARIANTS
    TypeOK
    LinksAgree

PROPERTY
    ImplementsSequence
