\* Three domains, a pool of three addresses: every address is recycled and reused.
CONSTANTS
    Domain = {a, b, c}
    NoDomain = NoDomain
    MaxHosts = 5
SPECIFICATION Spec
INVARIANTS
    OneOwner
    AnswersMapBack
