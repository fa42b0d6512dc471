--------------------------- MODULE MCAccountStore ---------------------------
(* Two handlers that race for one event, a third and a fourth with events of *)
(* their own.  With two digits of precision the first two amounts fit and the *)
(* sum of all does not.                                                       *)
EXTENDS AccountStore

CONSTANTS h1, h2, h3, h4, e1, e2, e3

MCEventOf == [h \in Handlers |-> CASE h \in {h1, h2} -> e1 [] h = h3 -> e2 [] OTHER -> e3]

Body(type, amount, local, offset) ==
    [type |-> type, amount |-> amount, time |-> [local |-> local, offset |-> offset]]

\* Submitted against the order of time, all timestamps in UTC.
UtcBodies ==
    [h \in Handlers |->
        CASE h \in {h1, h2} -> Body("CREDIT", 97, 12, 0)
          [] h = h3         -> Body("DEBIT", 5, 9, 0)
          [] OTHER          -> Body("CREDIT", 19, 18, 0)]

\* The same with one timestamp at 12 o'clock two hours east of a later one.
ZonedBodies ==
    [h \in Handlers |->
        CASE h \in {h1, h2} -> Body("CREDIT", 97, 12, 2)
          [] h = h3         -> Body("DEBIT", 5, 11, 0)
          [] OTHER          -> Body("CREDIT", 19, 18, 0)]
=============================================================================
