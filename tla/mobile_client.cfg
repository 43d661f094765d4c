SPECIFICATION MobileSpec
CONSTANTS
    ann = ann
    bob = bob
    mail = mail
    l1 = l1
    l2 = l2
    Users <- MCUsers
    Emails <- MCEmails
    Slots <- MCSlots
    NoEmail = NoEmail
    NoUser = NoUser
    NoRequest = NoRequest
    NoToken = NoToken
    NoSession = NoSession
SYMMETRY MCSymmetry
INVARIANTS
    MobileTypeOK
    LoggedInAsCurrentUser
    PlaysAsCurrentUser
    LogoutUnderWay
    WaitsForSomething
