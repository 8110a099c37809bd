------------------------------- MODULE MCGroups -------------------------------
(* One group, two hubs, and the envelopes its clients may sign, for TLC. *)
EXTENDS DmInbox

CONSTANTS a, b, grp, c1, c2, m1, m2, add3, rem2, lv2, lv1, bad3, del,
          d1, d2, d3, d4, r1, r2, k1, k2

OneGroup == [e \in Envelopes |-> grp]
Signers == [e \in Envelopes |-> IF e \in {c2, m1, m2, lv2, bad3} THEN 2 ELSE 1]
Lists == [e \in Envelopes |->
    IF e \in {add3, bad3} THEN {3} ELSE IF e = rem2 THEN {2}
    ELSE IF e \in Creates \cup Texts THEN {1, 2} ELSE {}]
OpKinds == [o \in Ops |->
    IF o \in {add3, bad3} THEN "add" ELSE IF o = rem2 THEN "remove"
    ELSE IF o = del THEN "delete" ELSE "leave"]
Forms == [e \in Envelopes |-> IF e = lv2 THEN "none" ELSE IF e \in {add3, m2} THEN "proto" ELSE "json"]
Relays == [e \in Envelopes |-> IF e \in {c2, lv1} THEN {b} ELSE IF e = m2 THEN {a, b} ELSE {a}]
Story(es, n) == [sent |-> es, faults |-> n, linked |-> {}]
Connected(es, n) == [sent |-> es, faults |-> n, linked |-> {{a, b}}]
Stories == {Story({c1, m1}, 0), Connected({c1, m1}, 1), Story({c1, rem2}, 1),
            Story({c1, del}, 0), Connected({c1, add3, del}, 0), Connected({c1, m1, del}, 0), Story({c1, lv2, bad3}, 0),
            Story({c1, c2}, 0), Story({c1, lv1}, 0), Story({c1, m2}, 0),
            Story({}, 0), Story({}, 1)}

Authors == [e \in Mails \cup Reads \cup Regs |-> IF e \in {d1, k1, k2} THEN 1 ELSE 2]
Recipients == [m \in Mails |-> IF m = d1 THEN 2 ELSE 1]
InPair == [r \in Reads |-> {1, 2}]
Seconds == [e \in Mails \cup Reads \cup Texts |->
    IF e \in {d1, r1} THEN 2 ELSE IF e \in {d2, d4} THEN 1 ELSE 3]
DmRelays == [e \in Mails \cup Reads \cup Regs |->
    IF e \in {d2, k2} THEN {b} ELSE IF e = d4 THEN {a, b} ELSE {a}]
Tale(es, others, n) == [sent |-> es, beside |-> others, faults |-> n]
DmTales ==
    {Tale({}, s.sent, s.faults) : s \in {x \in Stories : x.sent # {}}}
    \cup {Tale({d1, d2, d3}, {}, 0), Tale({d1, d2}, {}, 1), Tale({d3, d4}, {}, 0), Tale({d4}, {}, 1),
          Tale({d1, r1, r2}, {}, 1), Tale({k1, k2}, {}, 1)}
=============================================================================
