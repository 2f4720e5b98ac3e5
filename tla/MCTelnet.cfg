SPECIFICATION FairSpec
INVARIANTS StreamIntact 
PROPERTIES Negotiated
CHECK_DEADLOCK FALSE
