SPECIFICATION FairSpec
CONSTANTS
    Stages = 2
    Request = {r0, r1, r2}
    ZeroRequest = r0
    Sample = {s1, s2}
    Resets = {"clk"}
PROPERTY AnsweredAcrossReset
