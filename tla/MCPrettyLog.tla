---------------------------- MODULE MCPrettyLog ----------------------------
(* Records for TLC: durations and sizes on both sides of each limit.       *)
EXTENDS PrettyLog

D(day, hour, min, sec, ms, us, ns) ==
    [day |-> day, hour |-> hour, min |-> min, sec |-> sec,
     ms |-> ms, us |-> us, ns |-> ns]
MCDurations == {D(0, 0, 0, 0, 0, 9, 99), D(0, 0, 0, 0, 0, 999, 999),
                D(0, 0, 0, 0, 7, 0, 0), D(0, 0, 0, 0, 999, 999, 999),
                D(0, 0, 0, 1, 500, 0, 0), D(0, 0, 59, 59, 999, 0, 0),
                D(0, 1, 0, 0, 0, 0, 0), D(99, 23, 59, 59, 0, 0, 0),
                D(100, 0, 0, 0, 0, 0, 0), D(10000, 0, 0, 0, 0, 0, 0)}
MCSizes == {9, 9999, 10000}
MCCodes == {200}
MCLengths == {9, 19}
MCUrls == {[host |-> 19, path |-> 9], [host |-> 9, path |-> 0],
           [host |-> 0, path |-> 9]}
=============================================================================
