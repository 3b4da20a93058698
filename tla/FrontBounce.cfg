SPECIFICATION Spec
CONSTANTS
    Tab = {a}
    Token = {k1}
    NoToken = NoToken
PROPERTIES
    Bounced
