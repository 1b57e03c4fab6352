---------------------------- MODULE MCMemberAdmin ----------------------------
(* Small instances for TLC of two components that share no state here, one at *)
(* a time: the administration of the members of a workshop, and how they come *)
(* to be members, with the synchronisation of their identities.               *)
EXTENDS MemberAdmin, IdentitySync, TLC, Sequences

CONSTANTS s1, s2, a, b, q1, q2, q3, w1, w2

VARIABLE play   \* what is asked for and what happens, or Administration

Ask(op, who, inv, email) ==
  [op |-> op, who |-> who, inv |-> inv, email |-> email, at |-> "start", profile |-> None,
   attempt |-> 1, sets |-> "nothing", drops |-> {}, answer |-> ""]
Accept(who, inv) == Ask("accept", who, inv, a)
Onboard(who) == Ask("onboard", who, None, a)
Create(email) == Ask("create", s1, None, email)
Revoke(inv) == Ask("revoke", s1, inv, a)
Nothing == [Onboard(s1) EXCEPT !.at = "done"]
Calls == {Accept(s1, 1), Onboard(s1)}

Profile(email, banned, gone) == [email |-> email, banned |-> banned, gone |-> gone]
Address(email) == Profile(email, FALSE, FALSE)
Ban(email)     == Profile(email, TRUE, FALSE)
Gone           == Profile(a, FALSE, TRUE)

\* The calls, the address of the other subject, what becomes of the first one at
\* the provider under which svix ids, and the workers and bodies there are.
Play(calls, other, script, ids, workers, bodies) ==
  [calls |-> calls, other |-> other, script |-> script, ids |-> ids, workers |-> workers, bodies |-> bodies]

Races == {Play(calls, other, <<>>, <<>>, {}, {}) :
            calls \in {<<Accept(s1, 1), Accept(s2, 1), Revoke(1)>>, <<Create(a), Create(a), Accept(s1, 1)>>,
                       <<Accept(s1, 1), Onboard(s1), Onboard(s1)>>, <<Create(a), Revoke(1), Accept(s1, 1)>>},
            other \in {a, b}}
Endings == {Play(<<c, Onboard(s1), Nothing>>, a, <<last>>, <<12>>, {w1}, {"x"}) : c \in Calls, last \in {Gone, Ban(a)}}
           \cup {Play(<<c, Nothing, Nothing>>, a, script, <<12, 11>>, {w1}, {"x"}) :
                   c \in Calls, script \in {<<Address(None), Address(b)>>, <<Ban(None), Gone>>}}
Orders == {Play(<<Nothing, Nothing, Nothing>>, a, <<Ban(b), Address(b), Address(a)>>, <<12, 11, 13>>, {w1}, {"x"}),
           Play(<<Nothing, Nothing, Nothing>>, a, <<Address(b), Ban(a)>>, <<11, 12>>, {w1, w2}, {"x"}),
           Play(<<Nothing, Nothing, Nothing>>, a, <<Address(b), Address(a)>>, <<12, 11>>, {w1, w2}, {"x"}),
           Play(<<Nothing, Nothing, Nothing>>, a, <<Ban(a)>>, <<11>>, {w1}, Hashes)}

Administration == Play(<<Nothing, Nothing, Nothing>>, a, <<>>, <<>>, {}, {})

PlayInit ==
  /\ provider = [s \in Subjects |-> Address(IF s = s1 THEN a ELSE play.other)]
  /\ invited = [i \in Invitations |-> [status |-> IF i = 1 THEN "pending" ELSE "none",
                                       email |-> IF i = 1 THEN a ELSE None, due |-> FALSE]]
  /\ asked = [q \in Callers |-> play.calls[CASE q = q1 -> 1 [] q = q2 -> 2 [] q = q3 -> 3]]
  /\ SyncInit

MCInit == /\ play \in {Administration} \cup Races \cup Endings \cup Orders
          /\ PlayInit
          /\ Init

\* Only the administration of members.
AdminInit == play = Administration /\ PlayInit /\ Init

\* The steps of SyncNext that belong to the play; only races end invitations.
WithinPlay ==
  LET n == Cardinality(Happened') IN
  /\ n <= Len(play.script)
  /\ n > Cardinality(Happened) => play.ids[n] \in Happened' /\ provider'[s1] = play.script[n]
  /\ \A e \in Events : hooks'[e] \in play.bodies \cup {None}
  /\ conflicts' # conflicts => play.bodies = Hashes
  /\ \A w \in Runners \ play.workers : runs'[w].at = "idle"
  /\ play \in Races \/ (mailing' = {} /\ \A i \in Invitations : ~invited'[i].due)

MCNext == \/ play = Administration /\ Next /\ UNCHANGED <<play, syncAll>>
          \/ play # Administration /\ SyncNext /\ WithinPlay /\ UNCHANGED <<play, vars>>

MCSpec == MCInit /\ [][MCNext]_<<play, vars, syncAll>>
AdminSpec == AdminInit /\ [][MCNext]_<<play, vars, syncAll>>

Symmetry == Permutations(Members) \cup Permutations(Requests)
=============================================================================
