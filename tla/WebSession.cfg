CONSTANTS
    Tab = {t1}
    SessionId = {s1, s2}
    MaxLeft = 1
    Nil = Nil
    Keep = Keep
SPECIFICATION WebSpec
PROPERTIES OnlyLogoutEnds FindsOut
