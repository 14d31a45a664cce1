\* Up to three jobs, each asked for up to twice; a death of the server or a change of passwd.
SPECIFICATION Spec
CONSTANTS
    Cases <- MCCases
    Passwds <- MCPasswds
    Allowed <- MCAllowed
    Digits <- MCDigits
INVARIANTS
    TypeOK
    EachOnce
    AnswersTrue
    RunsAsUser
PROPERTY
    ServesOn
\* the PC has no more to print
CHECK_DEADLOCK FALSE
