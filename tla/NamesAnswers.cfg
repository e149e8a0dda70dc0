\* Two callers that ask over one stream.
CONSTANTS
    Callers = {p1, p2}
    Hosts = {h1, h2}
    Unknown = {}
    MaxEntries = 2
    NoHost = NoHost
SPECIFICATION Spec
INVARIANT
    AnswersMatch
