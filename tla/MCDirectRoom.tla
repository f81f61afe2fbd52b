---------------------------- MODULE MCDirectRoom ----------------------------
(* Histories of a room for TLC.                                            *)
EXTENDS DirectRoom

E(a, prev, pol, t) == [kind |-> "event", author |-> a, sequence |-> prev.sequence + 1,
                       previous |-> prev, policy |-> pol, text |-> t]
P(prev, w, s) == [kind |-> "policy", revision |-> prev.revision + 1, previous |-> prev,
                  writers |-> w, seals |-> s]
G(w) == [kind |-> "policy", revision |-> 0, previous |-> Zero, writers |-> w, seals |-> {}]

\* A reader that joins late: the first policy seals less than is retained, the
\* second what was written under the first.
gx == G({"x"})
x1 == E("x", Zero, gx, "a")
x2 == E("x", x1, gx, "b")
p1 == P(gx, {"me", "x"}, {x1})
x3 == E("x", x2, p1, "c")
p2 == P(p1, {"me", "x"}, {x3})
Joiner == [created |-> FALSE, writers |-> {"x"}, offers |-> {x1, x2, x3, p1, p2},
           texts |-> {"t1"}, lists |-> <<>>, limit |-> 30, grown |-> 30, reserve |-> 1,
           observed |-> 3, frames |-> 2, page |-> 1, commits |-> 1, faults |-> 1]

\* An author that signed two events at one sequence, one of them sealed.
y2 == E("x", x1, gx, "z")
y3 == E("x", y2, gx, "c")
f1 == P(gx, {"me", "x"}, {x2})
Forker == [Joiner EXCEPT !.offers = {x1, x2, y2, y3, f1}, !.texts = {}]

\* A member that is removed and admitted again; the first policy seals what it
\* may have sent before.
gm == G({"me", "x"})
w1 == E("x", Zero, gm, "a")
m1 == E("me", Zero, gm, "t1")
q1 == P(gm, {"x"}, {m1, w1})
r1 == P(gm, {"x"}, {w1})
q2 == P(q1, {"me", "x"}, {})
Member == [Joiner EXCEPT !.writers = {"me", "x"}, !.offers = {w1, q1, q2}, !.texts = {"t1", "t2"}]

c1 == E("me", Zero, gm, "copy")

\* An owner that forked, or a copy of the author's key, at a store that is nearly full.
Full == [Member EXCEPT !.offers = {w1, q1, r1, c1}, !.texts = {"t1"}, !.limit = 5, !.grown = 11]

\* More unapplied policies than the session tracks.
s1 == P(gm, {"me", "x"}, {})
s2 == P(s1, {"me", "x"}, {})
s3 == P(s2, {"me", "x"}, {})
Flood == [Member EXCEPT !.offers = {s1, s2, s3, r1}, !.texts = {"t1"}, !.observed = 1]

\* The home that created the room, and a copy of one of its keys somewhere
\* else: the author's, which also signs what is reserved here, or the owner's.
Author == [Member EXCEPT !.created = TRUE, !.offers = {w1, m1, c1}, !.texts = {"t1"},
                         !.lists = [l1 |-> {"me", "x"}]]
Owner  == [Author EXCEPT !.offers = {s1, r1}, !.lists = [l1 |-> {"me", "x"}, l2 |-> {"me"}]]

MCOrder == <<"me", "x">>
MCRooms == {Joiner, Forker, Member, Full, Flood, Author, Owner}
=============================================================================
