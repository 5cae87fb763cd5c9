\* One policy that negates the membership of an array.
SPECIFICATION Spec
CONSTANTS
    Key <- MCKey
    FieldOf <- MCFieldOf
    Prefix <- MCPrefix
    UserAttr = {"tenant"}
    MaxConditions = 2
    MaxValues = 2
    NumberText <- MCNumberText
    RoleName <- MCUntaggedRoles
    Sources <- MCUntagged
    Attributes <- MCAttributes
    Filters <- MCFilters
    Scrolls <- MCScrolls
    Cells <- MCCells
    MaxRoles = 2
    Readers = {{"untagged"}}
INVARIANTS MalformedNeverMatches
