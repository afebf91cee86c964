SPECIFICATION MCSpec
CONSTANTS
    c1 = c1  c2 = c2  c3 = c3
    Candidates = {c1, c2, c3}
    Invalid = {c2}
    FileOrder <- MCFileOrder
    Guarded = {}
    MaxJournal = 2
    None = None
    Cut = Cut  NL = NL  Junk = Junk
    MaxFaults = 2
    MaxReorgs = 1
    s1 = s1  s2 = s2  s3 = s3
    LogReaders = {}
    LogFailures = {"cut", "whole"}
CHECK_DEADLOCK FALSE
INVARIANT LogReplays
