\* Three traces, a page of one or two, one slot.
SPECIFICATION FairSpec
CONSTANTS
    Span <- MCSpan
    Late <- MCLate
    Expiring <- MCExpiring
    Role = {"own"}
    Attributes = {"given"}
    Model = {"wide", "narrow"}
    Permits <- MCPermits
    Meets <- MCMeets
    From = 3
    To = 7
    Second = 2
    Limits = {1, 2}
    Slots = 1
    Nothing = Nothing
    Start = Start
INVARIANTS TypeOK CursorDescends SlotsAccounted AuditAccounted
PROPERTIES ImplementsPromise NothingUnpermitted ExportEnds
