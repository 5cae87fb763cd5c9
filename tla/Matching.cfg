\* Eight fields of every type; roles for the forms of a policy, two at a time.
SPECIFICATION Spec
CONSTANTS
    Key <- MCKey
    FieldOf <- MCFieldOf
    Prefix <- MCPrefix
    UserAttr = {"tenant"}
    MaxConditions = 2
    MaxValues = 2
    NumberText <- MCNumberText
    RoleName <- MCRoleName
    Sources <- MCSources
    Attributes <- MCAttributes
    Filters <- MCFilters
    Scrolls <- MCScrolls
    Cells <- MCCells
    MaxRoles = 2
    Readers = {{"own"}}
INVARIANTS TypeOK SqlAgreesWithCel FilterMeansWhatItSays CursorBinds
PROPERTIES RolesOnlyWiden
