---------------------------- MODULE MCHealthCheck ----------------------------
(***************************************************************************)
(* A zone with nothing to report, and eight with a flaw in every place:    *)
(* the flaws with the smallest and the largest deductions, and the         *)
(* combinations that bring a score to its limits.  The checks of a refresh *)
(* that see one of these are mixed in every way with those that see the    *)
(* clean zone.                                                             *)
(***************************************************************************)
EXTENDS HealthCheck, TLC

MCClean ==
    [host  |-> [fails |-> FALSE, addresses |-> 1, ptr |-> "match", listed |-> 0],
     mx    |-> [fails |-> FALSE, hosts |-> <<"good", "good">>, samePriority |-> FALSE],
     name  |-> <<>>,
     spf   |-> [records |-> 1, includes |-> <<"good">>, all |-> "-all",
                malformed |-> 0, lookups |-> 2, long |-> FALSE],
     dkim  |-> <<"good", "good">>,
     dmarc |-> [records |-> 1, p |-> "reject", pct |-> 100, pctInvalid |-> FALSE,
                sp |-> "strict", alignment |-> <<"s", "s">>, rua |-> TRUE,
                badURIs |-> 0, badOptions |-> 0],
     cert  |-> [found |-> TRUE, valid |-> TRUE, days |-> 80, matches |-> TRUE,
                key |-> "rsa4096", signature |-> "strong", selfSigned |-> FALSE]]

Host(i) ==
    LET h == MCClean.host
    IN  <<[h EXCEPT !.ptr = "other"], [h EXCEPT !.ptr = "none"], [h EXCEPT !.fails = TRUE],
          [h EXCEPT !.fails = TRUE], [h EXCEPT !.addresses = 0], [h EXCEPT !.listed = 2],
          h, h>>[i]
MX(i) ==
    LET x == MCClean.mx
    IN  <<[x EXCEPT !.hosts = <<"free">>], [x EXCEPT !.fails = TRUE], x,
          [x EXCEPT !.hosts = <<>>], [x EXCEPT !.hosts = <<"good", "dead">>],
          [x EXCEPT !.hosts = [j \in 1..7 |-> "dead"], !.samePriority = TRUE],
          [x EXCEPT !.hosts = [j \in 1..7 |-> "dead"], !.samePriority = TRUE],
          [x EXCEPT !.hosts = <<>>]>>[i]
SPF(i) ==
    LET s == MCClean.spf
    IN  <<[s EXCEPT !.records = 0], [s EXCEPT !.records = 2],
          [s EXCEPT !.records = 2, !.includes = <<"empty">>, !.all = "+all"],
          [s EXCEPT !.all = "~all", !.includes = <<"unresolved">>],
          [s EXCEPT !.all = "all", !.lookups = 9], [s EXCEPT !.all = "missing"],
          [s EXCEPT !.malformed = 2], [s EXCEPT !.lookups = 8, !.long = TRUE]>>[i]
DKIM(i) ==
    <<<<>>, <<"invalid">>, <<"tiny">>, <<"short", "good">>, <<"other", "short">>,
      <<"tiny", "tiny", "tiny", "tiny">>, <<"short", "short", "invalid">>, <<"other">>>>[i]
DMARC(i) ==
    LET d == MCClean.dmarc
    IN  <<[d EXCEPT !.records = 0], [d EXCEPT !.records = 2], [d EXCEPT !.p = "missing"],
          [d EXCEPT !.records = 2, !.p = "missing"],
          [d EXCEPT !.p = "none", !.sp = "missing", !.rua = FALSE],
          [d EXCEPT !.p = "invalid", !.pctInvalid = TRUE, !.badURIs = 5],
          [d EXCEPT !.p = "quarantine", !.pct = 33, !.alignment = <<"r", "invalid">>],
          [d EXCEPT !.sp = "none", !.badOptions = 2]>>[i]
Cert(i) ==
    LET c == MCClean.cert
    IN  <<[c EXCEPT !.found = FALSE], [c EXCEPT !.valid = FALSE], [c EXCEPT !.days = 6],
          [c EXCEPT !.days = 7], [c EXCEPT !.days = 59, !.key = "rsa2048"],
          [c EXCEPT !.matches = FALSE], [c EXCEPT !.days = 59, !.key = "unknown"],
          [c EXCEPT !.key = "rsa1024", !.signature = "md5", !.selfSigned = TRUE]>>[i]

MCZones ==
    {MCClean} \cup
    {[host |-> Host(i), mx |-> MX(i), spf |-> SPF(i), dkim |-> DKIM(i), dmarc |-> DMARC(i),
      cert |-> Cert(i),
      name |-> IF i = 7 THEN <<"suspicious", "pattern">> ELSE <<>>] : i \in 1..8}

Symmetry == Permutations(Requests)
=============================================================================
