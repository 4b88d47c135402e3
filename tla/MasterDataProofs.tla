-------------------------- MODULE MasterDataProofs --------------------------
(***************************************************************************)
(* Proofs about MasterData for every set of requests, records and scenes.  *)
(*                                                                         *)
(* The argument: a request that has written its row and not committed is   *)
(* still looking at the committed row (Held), because whoever would change *)
(* that row waits for it (Apart), and because nobody has changed it since  *)
(* it was read (Follows) when the write's version matched.  A creation     *)
(* holds an id nobody else has (Fresh).  Everything else follows.          *)
(***************************************************************************)
EXTENDS MasterData, TLAPS

Labels == {"verify", "load", "check", "conflict", "publish"} \cup Uncommitted \cup Ended

Shaped ==
    /\ row = [x \in Records |-> row[x]]
    /\ \A x \in Records : row[x].version \in Nat
    /\ pc \in [Requests -> Labels]
    /\ loaded = [r \in Requests |-> loaded[r]]
    /\ \A r \in Requests : loaded[r].version \in Nat
    /\ told \in [Requests -> Nat]
    /\ announced = [r \in Requests |-> announced[r]]
    /\ \A r \in Requests : Offered(op[r])

OneCreator ==
    \A q, r \in Requests : q # r /\ Creates(q) /\ Creates(r) => Item(q) # Item(r)

\* A creation's record is not there before it commits.
Fresh ==
    \A r \in Requests :
        /\ pc[r] = "verify" => Creates(r)
        /\ pc[r] = "load" => announced[r] = {}
        /\ pc[r] \in {"load", "conflict", "conflicted"} => ~Creates(r)
        /\ Creates(r) => loaded[r] = Absent
        /\ Creates(r) /\ pc[r] \in {"verify", "check"} \cup Uncommitted => row[Item(r)] = Absent

\* What a request read is a version the record had.
Follows ==
    \A r \in Requests :
        /\ loaded[r].version <= row[Item(r)].version
        /\ loaded[r].version > 0 /\ loaded[r].version = row[Item(r)].version
               => loaded[r] = row[Item(r)]

\* Past its load, a request on an existing record has read a row.
HasRead ==
    \A r \in Requests :
        ~Creates(r) /\ pc[r] \in {"check", "conflict", "conflicted"} \cup Uncommitted
            => loaded[r].version > 0

\* The row under an uncommitted write is the one the write was computed from.
Held ==
    \A r \in Requests :
        ~Creates(r) /\ pc[r] \in Uncommitted => loaded[r] = row[Item(r)] /\ Live(row[Item(r)])

\* Two uncommitted writes touch different rows and claim different keys.
Apart ==
    \A q, r \in Requests :
        q # r /\ pc[q] \in Uncommitted /\ pc[r] \in Uncommitted
            => /\ Item(q) # Item(r)
               /\ Keys(Item(q), Draft(q).data) \cap Keys(Item(r), Draft(r).data) = {}

\* What an uncommitted write claims, no other row has.
Claims == \A r \in Requests : pc[r] \in Uncommitted => Unique(r)

\* Behind a publication there is a commit, behind a conflict a newer row or none.
Reasons ==
    \A r \in Requests :
        /\ pc[r] = "publish" => row[Item(r)].version > loaded[r].version
        /\ pc[r] = "conflict" =>
             row[Item(r)].version > loaded[r].version \/ ~Live(row[Item(r)])

IInv ==
    /\ Shaped
    /\ OneCreator
    /\ Fresh
    /\ Follows
    /\ HasRead
    /\ Held
    /\ Apart
    /\ Claims
    /\ Reasons
    /\ KeysUnique
    /\ AnswersAreTrue

-----------------------------------------------------------------------------
(* What the definitions say, and what a step that leaves a request alone leaves. *)

LEMMA AbsentType == Absent.version = 0 /\ ~Live(Absent)
BY DEF Absent, Live

LEMMA ItemType ==
    ASSUME Shaped, NEW r \in Requests
    PROVE  Item(r) \in Records
BY DEF Shaped, Offered, Item

LEMMA SameCommand ==
    ASSUME NEW r \in Requests, UNCHANGED op
    PROVE  Item(r)' = Item(r) /\ (Creates(r)' <=> Creates(r))
BY DEF Item, Creates

LEMMA SameDraft ==
    ASSUME NEW r \in Requests, UNCHANGED op, loaded'[r] = loaded[r]
    PROVE  Draft(r)' = Draft(r)
BY DEF Draft, Item, Creates

LEMMA SameUnique ==
    ASSUME NEW r \in Requests, UNCHANGED <<row, op>>, loaded'[r] = loaded[r]
    PROVE  Unique(r)' <=> Unique(r)
<1>1. Draft(r)' = Draft(r) /\ Item(r)' = Item(r)
    BY SameDraft, SameCommand
<1>2. QED
    BY <1>1 DEF Unique, Taken, Live

\* A step that only moves one request on, past its statements or out.
Aside(r) ==
    /\ UNCHANGED <<row, op, loaded>>
    /\ \A q \in Requests \ {r} :
         pc'[q] = pc[q] /\ told'[q] = told[q] /\ announced'[q] = announced[q]
    /\ pc'[r] \notin {"verify", "load", "publish", "conflict"}
    /\ pc'[r] \in Uncommitted => pc[r] \in Uncommitted
    /\ pc'[r] = "check" => pc[r] \in {"verify", "check"}
    /\ pc'[r] = "conflicted" => pc[r] = "conflict"

LEMMA AsideKeeps ==
    ASSUME IInv, NEW r \in Requests, Aside(r)
    PROVE  /\ OneCreator' /\ Fresh' /\ Follows' /\ HasRead' /\ Held'
           /\ Apart' /\ Claims' /\ Reasons' /\ KeysUnique'
<1>1. \A q \in Requests : /\ Item(q)' = Item(q)
                          /\ Creates(q)' <=> Creates(q)
                          /\ Draft(q)' = Draft(q)
                          /\ Unique(q)' <=> Unique(q)
    BY SameCommand, SameDraft, SameUnique DEF Aside
<1>2. \A q \in Requests :
         /\ pc'[q] \in Uncommitted => pc[q] \in Uncommitted
         /\ pc'[q] = "check" => pc[q] \in {"verify", "check"}
         /\ pc'[q] = "conflicted" => pc[q] \in {"conflict", "conflicted"}
         /\ \A label \in {"verify", "load", "publish", "conflict"} : pc'[q] = label => pc[q] = label
    BY DEF Aside
<1>3. OneCreator'
    BY <1>1, Zenon DEF IInv, OneCreator
<1>4. Fresh'
    BY <1>1, <1>2 DEF IInv, Fresh, Aside, Uncommitted
<1>5. Follows'
    BY <1>1 DEF IInv, Follows, Aside
<1>6. HasRead'
    BY <1>1, <1>2 DEF IInv, HasRead, Fresh, Aside, Uncommitted
<1>7. Held'
    BY <1>1, <1>2 DEF IInv, Held, Aside, Live
<1>8. Apart'
    BY <1>1, <1>2, Zenon DEF IInv, Apart
<1>9. Claims'
    BY <1>1, <1>2, Zenon DEF IInv, Claims
<1>10. Reasons'
    BY <1>1, <1>2 DEF IInv, Reasons, Aside, Live
<1>11. KeysUnique'
    BY DEF IInv, KeysUnique, Aside, Live
<1>12. QED
    BY <1>3, <1>4, <1>5, <1>6, <1>7, <1>8, <1>9, <1>10, <1>11

-----------------------------------------------------------------------------
(* The initial state, and the actions that are steps aside. *)

LEMMA InitIInv == Init => IInv
<1> SUFFICES ASSUME Init PROVE IInv
    OBVIOUS
<1>1. PICK s \in Scenes : row = s.rows /\ op \in [Requests -> s.commands]
    BY DEF Init
<1>2. ASSUME NEW x \in Records
      PROVE  row[x].version \in Nat
    <2>1. IsRow(row[x], x)
        BY <1>1, ScenesAssumption
    <2>2. QED
        BY <2>1, AbsentType DEF IsRow
<1>3. \A r \in Requests :
        Offered(op[r]) /\ (op[r].kind = "Create" => row[op[r].item] = Absent)
    BY <1>1, ScenesAssumption
<1>4. \A r \in Requests : Item(r) \in Records
    BY <1>3 DEF Offered, Item
<1>5. \A r \in Requests : /\ pc[r] \in {"verify", "load", "check"}
                          /\ pc[r] = "verify" => Creates(r)
                          /\ pc[r] = "load" <=> ~Creates(r)
                          /\ loaded[r] = Absent
                          /\ announced[r] = {}
    BY DEF Init, Start, Creates
<1>6. Shaped
    <2>1. row = [x \in Records |-> row[x]]
        BY <1>1, ScenesAssumption
    <2>2. pc \in [Requests -> Labels]
        BY <1>5 DEF Init, Labels
    <2>3. QED
        BY <2>1, <2>2, <1>2, <1>3, AbsentType DEF Init, Shaped
<1>7. OneCreator
    BY DEF Init, OneCreator
<1>8. Fresh
    BY <1>3, <1>5 DEF Fresh, Creates, Item
<1>9. Follows
    BY <1>2, <1>4, <1>5, AbsentType DEF Follows
<1>10. HasRead /\ Held /\ Apart /\ Claims
    BY <1>5 DEF HasRead, Held, Apart, Claims, Uncommitted
<1>11. Reasons /\ AnswersAreTrue
    BY <1>5 DEF Reasons, AnswersAreTrue
<1>12. KeysUnique
    BY <1>1, ScenesAssumption DEF KeysUnique
<1>13. QED
    BY <1>6, <1>7, <1>8, <1>9, <1>10, <1>11, <1>12 DEF IInv

\* Nothing is announced or answered by a step aside, but what the step itself says.
LEMMA AsideAnswers ==
    ASSUME IInv, NEW r \in Requests, Aside(r),
           PublishesAfter(Item(r)) /\ announced'[r] # {} => row[Item(r)].version > loaded[r].version,
           pc'[r] = "conflicted" =>
               \/ told'[r] > loaded[r].version
               \/ told'[r] = 0 /\ (~Service(Item(r)).answers \/ ~Live(row[Item(r)]))
    PROVE  AnswersAreTrue'
<1>1. \A q \in Requests : Item(q)' = Item(q)
    BY SameCommand DEF Aside
<1>2. SUFFICES ASSUME NEW q \in Requests
               PROVE  /\ PublishesAfter(Item(q)) /\ announced'[q] # {} =>
                           row[Item(q)].version > loaded[q].version
                      /\ pc'[q] = "conflicted" =>
                           \/ told'[q] > loaded[q].version
                           \/ told'[q] = 0 /\ (~Service(Item(q)).answers \/ ~Live(row[Item(q)]))
    BY <1>1 DEF AnswersAreTrue, Aside, PublishesAfter, Live
<1>3. CASE q = r
    BY <1>3
<1>4. CASE q # r
    BY <1>4 DEF IInv, AnswersAreTrue, Aside
<1>5. QED
    BY <1>3, <1>4

LEMMA QuietKeeps ==
    ASSUME IInv, NEW r \in Requests,
           VerifyWarehouse(r) \/ Check(r) \/ Refuse(r) \/ PublishInside(r) \/ Abort(r)
               \/ PublishAfter(r) \/ DieUnannounced(r) \/ AnswerConflict(r)
    PROVE  IInv'
<1>1. /\ UNCHANGED <<row, op, loaded>>
      /\ pc' \in [Requests -> Labels]
      /\ \A q \in Requests \ {r} :
           pc'[q] = pc[q] /\ told'[q] = told[q] /\ announced'[q] = announced[q]
      /\ told' \in [Requests -> Nat]
      /\ announced' = [q \in Requests |-> announced'[q]]
    <2>1. \A q \in Requests : Item(q) \in Records /\ row[Item(q)].version \in Nat
        BY ItemType DEF IInv, Shaped
    <2>2. UNCHANGED <<row, op, loaded>>
        BY DEF VerifyWarehouse, Check, Refuse, PublishInside, Abort, PublishAfter, DieUnannounced,
              AnswerConflict
    <2>3. /\ pc' \in [Requests -> Labels]
          /\ \A q \in Requests \ {r} : pc'[q] = pc[q]
        BY DEF VerifyWarehouse, Check, Refuse, PublishInside, Abort, PublishAfter, DieUnannounced,
              AnswerConflict, GoTo, IInv, Shaped, Labels, Ended, Uncommitted
    <2>4. /\ told' \in [Requests -> Nat]
          /\ \A q \in Requests \ {r} : told'[q] = told[q]
        <3>1. CASE AnswerConflict(r)
            BY <2>1, <3>1 DEF AnswerConflict, IInv, Shaped
        <3>2. CASE UNCHANGED told
            BY <3>2 DEF IInv, Shaped
        <3>3. QED
            BY <3>1, <3>2 DEF VerifyWarehouse, Check, Refuse, PublishInside, Abort, PublishAfter,
                DieUnannounced
    <2>5. /\ announced' = [q \in Requests |-> announced'[q]]
          /\ \A q \in Requests \ {r} : announced'[q] = announced[q]
        <3>1. CASE PublishInside(r) \/ PublishAfter(r)
            BY <3>1 DEF PublishInside, PublishAfter, IInv, Shaped
        <3>2. CASE UNCHANGED announced
            BY <3>2 DEF IInv, Shaped
        <3>3. QED
            BY <3>1, <3>2 DEF VerifyWarehouse, Check, Refuse, Abort, AnswerConflict, DieUnannounced
    <2>6. QED
        BY <2>2, <2>3, <2>4, <2>5
<1>2. Aside(r)
    BY <1>1 DEF VerifyWarehouse, Check, Refuse, PublishInside, Abort, PublishAfter, DieUnannounced,
              AnswerConflict, GoTo, IInv, Shaped, Aside, Uncommitted, Decided
<1>3. Shaped'
    BY <1>1 DEF IInv, Shaped, Offered
<1>4. PublishesAfter(Item(r)) /\ announced'[r] # {} => row[Item(r)].version > loaded[r].version
    <2>1. CASE announced'[r] = announced[r]
        BY <2>1 DEF IInv, AnswersAreTrue
    <2>2. CASE pc[r] = "publish"
        BY <2>2 DEF IInv, Reasons
    <2>3. CASE PublishInside(r)
        BY <2>3 DEF PublishInside, PublishesInside, PublishesAfter
    <2>4. QED
        BY <2>1, <2>2, <2>3 DEF VerifyWarehouse, Check, Refuse, Abort, PublishAfter,
              DieUnannounced, AnswerConflict
<1>5. pc'[r] = "conflicted" =>
         \/ told'[r] > loaded[r].version
         \/ told'[r] = 0 /\ (~Service(Item(r)).answers \/ ~Live(row[Item(r)]))
    BY DEF VerifyWarehouse, Check, Refuse, PublishInside, Abort, PublishAfter, DieUnannounced,
           AnswerConflict, GoTo, IInv, Shaped, Reasons, Decided, Uncommitted
<1>6. AnswersAreTrue'
    BY <1>1, <1>2, <1>4, <1>5, AsideAnswers
<1>7. QED
    BY <1>2, <1>3, <1>6, AsideKeeps DEF IInv

-----------------------------------------------------------------------------
(* The load: what is read is a live row. *)

LEMMA LoadKeeps ==
    ASSUME IInv, NEW r \in Requests, Load(r)
    PROVE  IInv'
<1>1. CASE ~Visible(Item(r), op[r].company)
    <2>1. Aside(r) /\ UNCHANGED <<told, announced>> /\ pc'[r] = "refused" /\ pc' \in [Requests -> Labels]
        BY <1>1 DEF Load, GoTo, IInv, Shaped, Aside, Uncommitted, Labels, Ended
    <2>2. Shaped'
        BY <2>1 DEF Aside, IInv, Shaped, Offered
    <2>3. AnswersAreTrue'
        BY <2>1, AsideAnswers DEF IInv, AnswersAreTrue
    <2>4. QED
        BY <2>1, <2>2, <2>3, AsideKeeps DEF IInv
<1>2. CASE Visible(Item(r), op[r].company)
    <2>1. /\ UNCHANGED <<row, op, told, announced>>
          /\ pc[r] = "load" /\ pc'[r] = "check" /\ pc' \in [Requests -> Labels]
          /\ loaded' = [loaded EXCEPT ![r] = row[Item(r)]]
          /\ loaded'[r] = row[Item(r)]
          /\ \A q \in Requests \ {r} : pc'[q] = pc[q] /\ loaded'[q] = loaded[q]
        BY <1>2 DEF Load, GoTo, IInv, Shaped, Labels
    <2>2. row[Item(r)].version \in Nat /\ row[Item(r)].version > 0
        BY <1>2, ItemType DEF Visible, Live, IInv, Shaped
    <2>3. ~Creates(r)
        BY <2>1 DEF IInv, Fresh
    <2>4. \A q \in Requests : Item(q)' = Item(q) /\ (Creates(q)' <=> Creates(q))
        BY <2>1, SameCommand
    <2>5. \A q \in Requests \ {r} : Draft(q)' = Draft(q) /\ (Unique(q)' <=> Unique(q))
        BY <2>1, SameDraft, SameUnique
    <2>6. pc'[r] \notin Uncommitted
        BY <2>1 DEF Uncommitted
    <2>7. Shaped'
        BY <2>1, <2>2 DEF IInv, Shaped, Offered
    <2>8. OneCreator'
        BY <2>4, Zenon DEF IInv, OneCreator
    <2>9. Fresh'
        BY <2>1, <2>3, <2>4 DEF IInv, Fresh
    <2>10. Follows'
        BY <2>1, <2>2, <2>4 DEF IInv, Follows
    <2>11. HasRead' /\ Held'
        BY <2>1, <2>2, <2>4, <2>6 DEF IInv, HasRead, Held, Live
    <2>12. Apart' /\ Claims'
        BY <2>1, <2>4, <2>5, <2>6 DEF IInv, Apart, Claims
    <2>13. Reasons' /\ AnswersAreTrue'
        <3>1. announced'[r] = {} /\ pc'[r] \notin {"publish", "conflict", "conflicted"}
            BY <2>1 DEF IInv, Fresh
        <3>2. QED
            BY <2>1, <2>4, <3>1 DEF IInv, Reasons, AnswersAreTrue, Live, PublishesAfter
    <2>14. KeysUnique'
        BY <2>1 DEF IInv, KeysUnique, Live
    <2>15. QED
        BY <2>7, <2>8, <2>9, <2>10, <2>11, <2>12, <2>13, <2>14 DEF IInv
<1>3. QED
    BY <1>1, <1>2

-----------------------------------------------------------------------------
(* The write: it waits for whoever holds the row or a key, then matches or not. *)

LEMMA MatchIsCurrent ==
    ASSUME IInv, NEW r \in Requests, Matches(r)
    PROVE  loaded[r] = row[Item(r)] /\ Live(row[Item(r)])
BY ItemType DEF Matches, Live, IInv, Shaped, Follows

LEMMA WriteKeeps ==
    ASSUME IInv, NEW r \in Requests, Write(r)
    PROVE  IInv'
<1>1. /\ UNCHANGED <<row, op, loaded, told, announced>>
      /\ pc[r] = "check" /\ ~Blocked(r)
      /\ pc'[r] \in {"conflict", "failed", "duplicate", "written"}
      /\ pc'[r] = "conflict" => ~Creates(r) /\ ~Matches(r)
      /\ pc'[r] = "written" => Unique(r) /\ (~Creates(r) => Matches(r))
      /\ pc' \in [Requests -> Labels]
      /\ \A q \in Requests \ {r} : pc'[q] = pc[q]
    BY DEF Write, Decided, GoTo, IInv, Shaped, Labels, Ended, Uncommitted
<1>2. Shaped'
    BY <1>1 DEF IInv, Shaped, Offered
<1>3. \A q \in Requests : /\ Item(q)' = Item(q)
                          /\ Creates(q)' <=> Creates(q)
                          /\ Draft(q)' = Draft(q)
                          /\ Unique(q)' <=> Unique(q)
    BY <1>1, SameCommand, SameDraft, SameUnique
<1>4. OneCreator'
    BY <1>3, Zenon DEF IInv, OneCreator
<1>5. Fresh'
    BY <1>1, <1>3 DEF IInv, Fresh, Uncommitted
<1>6. Follows'
    BY <1>1, <1>3 DEF IInv, Follows
<1>7. HasRead'
    BY <1>1, <1>3 DEF IInv, HasRead, Uncommitted
<1>8. Held'
    BY <1>1, <1>3, MatchIsCurrent DEF IInv, Held, Uncommitted, Live
<1>9. Apart'
    <2>1. \A q \in Requests \ {r} :
            pc[q] \in Uncommitted =>
                /\ Item(q) # Item(r)
                /\ Keys(Item(q), Draft(q).data) \cap Keys(Item(r), Draft(r).data) = {}
        BY <1>1 DEF Blocked, Holding
    <2>2. QED
        BY <1>1, <1>3, <2>1 DEF IInv, Apart
<1>10. Claims'
    BY <1>1, <1>3 DEF IInv, Claims, Uncommitted
<1>11. Reasons'
    <2>1. pc'[r] = "conflict" =>
            row[Item(r)].version > loaded[r].version \/ ~Live(row[Item(r)])
        <3>1. Item(r) \in Records
            BY ItemType DEF IInv
        <3>2. /\ row[Item(r)].version \in Nat /\ loaded[r].version \in Nat
              /\ loaded[r].version <= row[Item(r)].version
            BY <3>1 DEF IInv, Shaped, Follows
        <3>3. pc'[r] = "conflict" => ~Live(row[Item(r)]) \/ row[Item(r)].version # loaded[r].version
            BY <1>1 DEF Matches
        <3>4. QED
            BY <3>2, <3>3
    <2>2. QED
        BY <1>1, <1>3, <2>1 DEF IInv, Reasons, Live
<1>12. AnswersAreTrue'
    BY <1>1, <1>3 DEF IInv, AnswersAreTrue, Live, PublishesAfter
<1>13. KeysUnique'
    BY <1>1 DEF IInv, KeysUnique, Live
<1>14. QED
    BY <1>2, <1>4, <1>5, <1>6, <1>7, <1>8, <1>9, <1>10, <1>11, <1>12, <1>13 DEF IInv

-----------------------------------------------------------------------------
(* The commit: one row, replaced by the next version of itself. *)

LEMMA CommitReplaces ==
    ASSUME IInv, NEW r \in Requests, Commit(r)
    PROVE  /\ UNCHANGED <<op, loaded, told, announced>>
           /\ pc[r] \in Uncommitted
           /\ pc'[r] \in {"publish", "done"} /\ pc' \in [Requests -> Labels]
           /\ \A q \in Requests \ {r} : pc'[q] = pc[q]
           /\ loaded[r] = row[Item(r)]
           /\ row[Item(r)] = Absent \/ Live(row[Item(r)])
           /\ Creates(r) => row[Item(r)] = Absent
           /\ ~Creates(r) => row[Item(r)].version > 0
           /\ row' = [row EXCEPT ![Item(r)] = Draft(r)]
           /\ row'[Item(r)] = Draft(r)
           /\ \A x \in Records \ {Item(r)} : row'[x] = row[x]
           /\ Draft(r).version = row[Item(r)].version + 1
           /\ row[Item(r)].version \in Nat
<1>1. /\ UNCHANGED <<op, loaded, told, announced>>
      /\ pc[r] \in Uncommitted
      /\ pc'[r] \in {"publish", "done"} /\ pc' \in [Requests -> Labels]
      /\ \A q \in Requests \ {r} : pc'[q] = pc[q]
      /\ row' = [row EXCEPT ![Item(r)] = Draft(r)]
    BY DEF Commit, GoTo, IInv, Shaped, Labels, Ended, Uncommitted
<1>2. Item(r) \in Records /\ row[Item(r)].version \in Nat
    BY ItemType DEF IInv, Shaped
<1>3. row'[Item(r)] = Draft(r) /\ \A x \in Records \ {Item(r)} : row'[x] = row[x]
    BY <1>1, <1>2 DEF IInv, Shaped
<1>4. /\ loaded[r] = row[Item(r)]
      /\ row[Item(r)] = Absent \/ Live(row[Item(r)])
      /\ Creates(r) => row[Item(r)] = Absent
      /\ ~Creates(r) => row[Item(r)].version > 0
    BY <1>1, <1>2 DEF IInv, Fresh, Held, Live
<1>5. Draft(r).version = row[Item(r)].version + 1
    BY <1>4 DEF Draft
<1>6. QED
    BY <1>1, <1>2, <1>3, <1>4, <1>5

LEMMA CommitKeeps ==
    ASSUME IInv, NEW r \in Requests, Commit(r)
    PROVE  IInv'
<1> DEFINE x == Item(r)
<1>1. /\ UNCHANGED <<op, loaded, told, announced>>
      /\ pc[r] \in Uncommitted
      /\ pc'[r] \in {"publish", "done"} /\ pc' \in [Requests -> Labels]
      /\ \A q \in Requests \ {r} : pc'[q] = pc[q]
      /\ row' = [row EXCEPT ![x] = Draft(r)]
      /\ row'[x] = Draft(r)
      /\ \A y \in Records \ {x} : row'[y] = row[y]
    BY CommitReplaces
<1>2. /\ loaded[r] = row[x] /\ (row[x] = Absent \/ Live(row[x]))
      /\ Creates(r) => row[x] = Absent
      /\ ~Creates(r) => row[x].version > 0
      /\ row[x].version \in Nat /\ row'[x].version = row[x].version + 1
    BY <1>1, CommitReplaces
<1>3. x \in Records /\ \A q \in Requests : Item(q) \in Records
    BY ItemType DEF IInv
<1>4. \A q \in Requests : /\ Item(q)' = Item(q)
                          /\ Creates(q)' <=> Creates(q)
                          /\ Draft(q)' = Draft(q)
    BY <1>1, SameCommand, SameDraft
<1>5. pc'[r] \notin Uncommitted /\ pc'[r] \notin {"verify", "load", "check", "conflict", "conflicted"}
    BY <1>1 DEF Uncommitted
<1>6. \A q \in Requests : pc'[q] \in Uncommitted => q # r /\ pc[q] \in Uncommitted /\ Item(q) # x
    BY <1>1, <1>5 DEF IInv, Apart
<1> HIDE DEF x
<1>7. Shaped'
    <2>1. \A y \in Records : row'[y].version \in Nat
        BY <1>1, <1>2 DEF IInv, Shaped
    <2>2. row' = [y \in Records |-> row'[y]]
        BY <1>1 DEF IInv, Shaped
    <2>3. QED
        BY <1>1, <2>1, <2>2 DEF IInv, Shaped, Offered
<1>8. OneCreator'
    BY <1>4, Zenon DEF IInv, OneCreator
<1>9. Fresh'
    <2>1. ASSUME NEW q \in Requests, Creates(q), pc'[q] \in {"verify", "check"} \cup Uncommitted
          PROVE  row'[Item(q)] = Absent
        <3>1. q # r /\ pc'[q] = pc[q] /\ row[Item(q)] = Absent
            BY <1>1, <1>5, <2>1 DEF IInv, Fresh
        <3>2. Item(q) # x
            BY <1>2, <2>1, <3>1, AbsentType DEF IInv, OneCreator, x
        <3>3. QED
            BY <1>1, <1>3, <3>1, <3>2
    <2>2. QED
        BY <1>1, <1>4, <1>5, <2>1 DEF IInv, Fresh
<1>10. Follows'
    <2>1. ASSUME NEW q \in Requests
          PROVE  /\ loaded[q].version <= row'[Item(q)].version
                 /\ loaded[q].version > 0 /\ loaded[q].version = row'[Item(q)].version
                       => loaded[q] = row'[Item(q)]
        <3>1. /\ loaded[q].version \in Nat /\ row[Item(q)].version \in Nat
              /\ loaded[q].version <= row[Item(q)].version
              /\ loaded[q].version > 0 /\ loaded[q].version = row[Item(q)].version
                       => loaded[q] = row[Item(q)]
            BY <1>3 DEF IInv, Shaped, Follows
        <3>2. CASE Item(q) = x
            BY <1>2, <3>1, <3>2
        <3>3. CASE Item(q) # x
            BY <1>1, <1>3, <3>1, <3>3
        <3>4. QED
            BY <3>2, <3>3
    <2>2. QED
        BY <1>1, <1>4, <2>1 DEF Follows
<1>11. HasRead'
    BY <1>1, <1>4, <1>5 DEF IInv, HasRead
<1>12. Held'
    BY <1>1, <1>3, <1>4, <1>6 DEF IInv, Held, Live
<1>13. Apart'
    BY <1>4, <1>6, Zenon DEF IInv, Apart
<1>14. Claims'
    <2>1. ASSUME NEW q \in Requests, pc'[q] \in Uncommitted,
                 NEW key \in Keys(Item(q), Draft(q).data), NEW y \in Records \ {Item(q)},
                 Live(row'[y]), key \in Keys(y, row'[y].data)
          PROVE  FALSE
        <3>1. q # r /\ pc[q] \in Uncommitted /\ Unique(q)
            BY <1>6, <2>1 DEF IInv, Claims
        <3>2. CASE y = x
            BY <1>1, <2>1, <3>1, <3>2 DEF IInv, Apart, x
        <3>3. CASE y # x
            BY <1>1, <2>1, <3>1, <3>3 DEF Unique, Taken
        <3>4. QED
            BY <3>2, <3>3
    <2>2. QED
        BY <1>4, <2>1 DEF Claims, Unique, Taken, Live
<1>15. Reasons'
    <2>1. ASSUME NEW q \in Requests
          PROVE  /\ pc'[q] = "publish" => row'[Item(q)].version > loaded[q].version
                 /\ pc'[q] = "conflict" =>
                      row'[Item(q)].version > loaded[q].version \/ ~Live(row'[Item(q)])
        <3>1. /\ loaded[q].version \in Nat /\ row[Item(q)].version \in Nat
              /\ loaded[q].version <= row[Item(q)].version
            BY <1>3 DEF IInv, Shaped, Follows
        <3>2. CASE Item(q) = x
            BY <1>2, <3>1, <3>2
        <3>3. CASE Item(q) # x
            <4>1. q # r
                BY <3>3 DEF x
            <4>2. QED
                BY <1>1, <1>3, <3>3, <4>1 DEF IInv, Reasons
        <3>4. QED
            BY <3>2, <3>3
    <2>2. QED
        BY <1>1, <1>4, <2>1 DEF Reasons, Live
<1>16. KeysUnique'
    <2>1. Unique(r)
        BY <1>1 DEF IInv, Claims
    <2>2. \A y \in Records \ {x} :
            Live(row[y]) => Keys(x, row'[x].data) \cap Keys(y, row[y].data) = {}
        BY <1>1, <2>1 DEF Unique, Taken, x
    <2>3. ASSUME NEW y \in Records, NEW z \in Records, y # z, Live(row'[y]), Live(row'[z])
          PROVE  Keys(y, row'[y].data) \cap Keys(z, row'[z].data) = {}
        <3>1. CASE y = x
            BY <1>1, <2>2, <2>3, <3>1
        <3>2. CASE z = x
            BY <1>1, <2>2, <2>3, <3>2
        <3>3. CASE y # x /\ z # x
            BY <1>1, <2>3, <3>3 DEF IInv, KeysUnique
        <3>4. QED
            BY <3>1, <3>2, <3>3
    <2>4. QED
        BY <2>3 DEF KeysUnique, Live
<1>17. AnswersAreTrue'
    <2>1. ASSUME NEW q \in Requests
          PROVE  /\ PublishesAfter(Item(q)) /\ announced[q] # {} =>
                      row'[Item(q)].version > loaded[q].version
                 /\ pc'[q] = "conflicted" =>
                      \/ told[q] > loaded[q].version
                      \/ told[q] = 0 /\ (~Service(Item(q)).answers \/ ~Live(row'[Item(q)]))
        <3>1. /\ loaded[q].version \in Nat /\ row[Item(q)].version \in Nat
              /\ loaded[q].version <= row[Item(q)].version
            BY <1>3 DEF IInv, Shaped, Follows
        <3>2. CASE Item(q) = x
            <4>1. pc'[q] = "conflicted" => q # r /\ pc[q] = "conflicted"
                BY <1>1, <1>5
            <4>2. pc'[q] = "conflicted" => row[x] # Absent
                BY <3>1, <3>2, <4>1, AbsentType DEF IInv, HasRead, Fresh
            <4>3. pc'[q] = "conflicted" => Live(row[x])
                BY <1>2, <4>2
            <4>4. QED
                BY <1>2, <3>1, <3>2, <4>1, <4>3 DEF IInv, AnswersAreTrue
        <3>3. CASE Item(q) # x
            <4>1. q # r
                BY <3>3 DEF x
            <4>2. QED
                BY <1>1, <1>3, <3>3, <4>1 DEF IInv, AnswersAreTrue
        <3>4. QED
            BY <3>2, <3>3
    <2>2. QED
        BY <1>1, <1>4, <2>1 DEF AnswersAreTrue, PublishesAfter, Live
<1>18. QED
    BY <1>7, <1>8, <1>9, <1>10, <1>11, <1>12, <1>13, <1>14, <1>15, <1>16, <1>17 DEF IInv

-----------------------------------------------------------------------------
(* The theorems. *)

LEMMA StepKeeps ==
    ASSUME IInv, [Next]_vars
    PROVE  IInv'
<1>1. CASE Next
    <2>1. PICK r \in Requests :
            \/ VerifyWarehouse(r) \/ Load(r) \/ Check(r) \/ Refuse(r) \/ Write(r)
            \/ PublishInside(r) \/ Commit(r) \/ Abort(r) \/ PublishAfter(r)
            \/ DieUnannounced(r) \/ AnswerConflict(r)
        BY <1>1, Zenon DEF Next
    <2>2. CASE Load(r)
        BY <2>2, LoadKeeps
    <2>3. CASE Write(r)
        BY <2>3, WriteKeeps
    <2>4. CASE Commit(r)
        BY <2>4, CommitKeeps
    <2>5. CASE \/ VerifyWarehouse(r) \/ Check(r) \/ Refuse(r) \/ PublishInside(r) \/ Abort(r)
               \/ PublishAfter(r) \/ DieUnannounced(r) \/ AnswerConflict(r)
        BY <2>5, QuietKeeps
    <2>6. QED
        BY <2>1, <2>2, <2>3, <2>4, <2>5
<1>2. CASE UNCHANGED vars
    <2>1. /\ UNCHANGED row /\ UNCHANGED op /\ UNCHANGED pc /\ UNCHANGED loaded
          /\ UNCHANGED told /\ UNCHANGED announced
        BY <1>2 DEF vars
    <2>2. \A q \in Requests : /\ Item(q)' = Item(q)
                              /\ Creates(q)' <=> Creates(q)
                              /\ Draft(q)' = Draft(q)
                              /\ Unique(q)' <=> Unique(q)
        BY <2>1, SameCommand, SameDraft, SameUnique
    <2>3. Shaped' /\ Follows' /\ HasRead' /\ Held'
        <3>1. Shaped'
            BY <2>1 DEF IInv, Shaped, Offered
        <3>2. Follows' /\ HasRead' /\ Held'
            BY <2>1, <2>2 DEF IInv, Follows, HasRead, Held, Live
        <3>3. QED
            BY <3>1, <3>2
    <2>4. Fresh' /\ Reasons'
        BY <2>1, <2>2 DEF IInv, Fresh, Reasons, Live
    <2>5. OneCreator' /\ Apart' /\ Claims'
        BY <2>1, <2>2 DEF IInv, OneCreator, Apart, Claims
    <2>6. KeysUnique' /\ AnswersAreTrue'
        BY <2>1, <2>2 DEF IInv, KeysUnique, AnswersAreTrue, PublishesAfter, Live
    <2>7. QED
        BY <2>3, <2>4, <2>5, <2>6 DEF IInv
<1>3. QED
    BY <1>1, <1>2

\* The inductive invariant of the course every service takes: load, check, write
\* under the version read, commit (Update and Create of each service).
THEOREM InductiveInvariant == Spec => []IInv
BY InitIInv, StepKeeps, PTL DEF Spec

\* Live records share no code, name, SKU or barcode in their scope, however many
\* requests check, write and die (the partial unique indexes under Save).
THEOREM KeysStayUnique == Spec => []KeysUnique
<1>1. IInv => KeysUnique
    BY DEF IInv
<1>2. QED
    BY InductiveInvariant, <1>1, PTL

\* Events that follow their transaction report a committed change, and a conflict
\* answer names a newer version or none (publish, concurrentModification).
THEOREM AnswersStayTrue == Spec => []AnswersAreTrue
<1>1. IInv => AnswersAreTrue
    BY DEF IInv
<1>2. QED
    BY InductiveInvariant, <1>1, PTL

LEMMA OnlyCommitsEnd ==
    ASSUME IInv, Next, NEW r \in Requests,
           pc[r] \in Uncommitted, pc'[r] \in {"done", "publish"}
    PROVE  Commit(r)
<1>1. PICK q \in Requests :
        \/ VerifyWarehouse(q) \/ Load(q) \/ Check(q) \/ Refuse(q) \/ Write(q)
        \/ PublishInside(q) \/ Commit(q) \/ Abort(q) \/ PublishAfter(q)
        \/ DieUnannounced(q) \/ AnswerConflict(q)
    BY Zenon DEF Next
<1>2. q = r
    BY <1>1 DEF VerifyWarehouse, Load, Check, Refuse, Write, PublishInside, Commit, Abort,
          PublishAfter, DieUnannounced, AnswerConflict, GoTo, IInv, Shaped, Uncommitted
<1>3. QED
    BY <1>1, <1>2 DEF VerifyWarehouse, Load, Check, Refuse, Write, PublishInside, Abort,
          PublishAfter, DieUnannounced, AnswerConflict, GoTo, Decided, IInv, Shaped, Uncommitted

\* No request overwrites a change it has not seen: what it commits was computed from
\* the very row it replaces (UpdateOptimistic, Update's read-modify-write).
THEOREM ChangesBuild == Spec => ChangesBuildOnReads
<1>1. ASSUME IInv, [Next]_vars
      PROVE  [\A r \in Requests :
                 pc[r] \in Uncommitted /\ pc'[r] \in {"done", "publish"}
                     => row[Item(r)] = loaded[r]]_vars
    <2>1. CASE Next
        BY <1>1, <2>1, OnlyCommitsEnd, CommitReplaces
    <2>2. CASE UNCHANGED vars
        BY <2>2
    <2>3. QED
        BY <1>1, <2>1, <2>2
<1>2. QED
    BY InductiveInvariant, <1>1, PTL DEF Spec, ChangesBuildOnReads

LEMMA OnlyCommitsWrite ==
    ASSUME IInv, Next, NEW x \in Records, row'[x] # row[x]
    PROVE  \E r \in Requests : Commit(r) /\ Item(r) = x
<1>1. PICK r \in Requests :
        \/ VerifyWarehouse(r) \/ Load(r) \/ Check(r) \/ Refuse(r) \/ Write(r)
        \/ PublishInside(r) \/ Commit(r) \/ Abort(r) \/ PublishAfter(r)
        \/ DieUnannounced(r) \/ AnswerConflict(r)
    BY Zenon DEF Next
<1>2. Commit(r)
    BY <1>1 DEF VerifyWarehouse, Load, Check, Refuse, Write, PublishInside, Abort,
          PublishAfter, DieUnannounced, AnswerConflict
<1>3. QED
    BY <1>2, CommitReplaces

\* An archived record is never written again, not even by a request that loaded it
\* while it was live (assertNotArchived, the WHERE clause of UpdateOptimistic).
THEOREM ArchivedStays == Spec => ArchivedStand
<1>1. ASSUME IInv, [Next]_vars
      PROVE  [\A x \in Records :
                 row[x].version > 0 /\ row[x].data.archived => row'[x] = row[x]]_vars
    <2>1. CASE Next
        <3>1. SUFFICES ASSUME NEW x \in Records, row[x].version > 0, row[x].data.archived,
                              row'[x] # row[x]
                       PROVE  FALSE
            OBVIOUS
        <3>2. PICK r \in Requests : Commit(r) /\ Item(r) = x
            BY <1>1, <2>1, <3>1, OnlyCommitsWrite
        <3>3. row[x] = Absent \/ Live(row[x])
            BY <1>1, <3>2, CommitReplaces
        <3>4. QED
            BY <3>1, <3>3, AbsentType DEF Live
    <2>2. CASE UNCHANGED vars
        BY <2>2
    <2>3. QED
        BY <1>1, <2>1, <2>2
<1>2. QED
    BY InductiveInvariant, <1>1, PTL DEF Spec, ArchivedStand

-----------------------------------------------------------------------------
(***************************************************************************)
(* What the rows hold: their type, the fitness of active warehouses, and   *)
(* the holds on warehouses and locations.  On top of the invariant above   *)
(* it takes one fact, that a write which is under way was accepted by its  *)
(* aggregate on the row it read.                                           *)
(***************************************************************************)

-----------------------------------------------------------------------------
(* What the aggregates compute from typed data is typed. *)

\* Values some record of the type could have replace a record's own.
LEMMA AmendTyped ==
    ASSUME NEW x \in Records, NEW d \in Data(x), NEW e \in Data(x), NEW change,
           \A f \in DOMAIN change : change[f] = e[f]
    PROVE  Amend(d, change) \in Data(x)
<1>1. CASE x \in Warehouses
    BY <1>1 DEF Data, WarehouseData, Amend
<1>2. CASE x \notin Warehouses /\ x \in Locations
    BY <1>2 DEF Data, LocationData, Amend
<1>3. CASE x \notin Warehouses /\ x \notin Locations /\ x \in Products
    BY <1>3 DEF Data, EntryData, ProductData, Amend
<1>4. CASE x \notin Warehouses /\ x \notin Locations /\ x \notin Products
    BY <1>4 DEF Data, EntryData, Amend
<1>5. QED
    BY <1>1, <1>2, <1>3, <1>4

LEMMA KindOfForm ==
    ASSUME NEW o, Offered(o)
    PROVE  /\ o.item \in Warehouses => o.kind \in DOMAIN WarehouseForms
           /\ o.item \notin Warehouses /\ o.item \in Locations => o.kind \in DOMAIN LocationForms
BY DEF Offered, Forms

\* A status change and an archive keep a record's type, in whatever table.
LEMMA StatusTyped ==
    ASSUME NEW x \in Records, NEW d \in Data(x), NEW status,
           status \in IF x \in Warehouses THEN WarehouseStatuses
                      ELSE IF x \in Locations THEN LocationStatuses ELSE EntryStatuses
    PROVE  [d EXCEPT !.status = status] \in Data(x)
<1>1. CASE x \in Warehouses
    BY <1>1 DEF Data, WarehouseData
<1>2. CASE x \notin Warehouses /\ x \in Locations
    BY <1>2 DEF Data, LocationData
<1>3. CASE x \notin Warehouses /\ x \notin Locations /\ x \in Products
    BY <1>3 DEF Data, EntryData, ProductData
<1>4. CASE x \notin Warehouses /\ x \notin Locations /\ x \notin Products
    BY <1>4 DEF Data, EntryData
<1>5. QED
    BY <1>1, <1>2, <1>3, <1>4

LEMMA ArchiveTyped ==
    ASSUME NEW x \in Records, NEW d \in Data(x)
    PROVE  [d EXCEPT !.archived = TRUE] \in Data(x)
<1>1. CASE x \in Warehouses
    BY <1>1 DEF Data, WarehouseData
<1>2. CASE x \notin Warehouses /\ x \in Locations
    BY <1>2 DEF Data, LocationData
<1>3. CASE x \notin Warehouses /\ x \notin Locations /\ x \in Products
    BY <1>3 DEF Data, EntryData, ProductData
<1>4. CASE x \notin Warehouses /\ x \notin Locations /\ x \notin Products
    BY <1>4 DEF Data, EntryData
<1>5. QED
    BY <1>1, <1>2, <1>3, <1>4

LEMMA AfterTyped ==
    ASSUME NEW o, Offered(o), NEW d \in Data(o.item)
    PROVE  After(o, d) \in Data(o.item)
<1>1. o.item \in Records /\ \E e \in Data(o.item) : \A f \in DOMAIN o.change : o.change[f] = e[f]
    BY DEF Offered
<1>2. Amend(d, o.change) \in Data(o.item)
    BY <1>1, AmendTyped
<1>3. [d EXCEPT !.archived = TRUE] \in Data(o.item)
    BY <1>1, ArchiveTyped
<1>4. CASE o.item \in Warehouses
    <2>1. o.kind \in DOMAIN WarehouseStatusAfter
              => [d EXCEPT !.status = WarehouseStatusAfter[o.kind]] \in Data(o.item)
        <3>1. o.kind \in DOMAIN WarehouseStatusAfter
                  => WarehouseStatusAfter[o.kind] \in WarehouseStatuses
            BY DEF WarehouseStatusAfter, WarehouseStatuses
        <3>2. QED
            BY <1>1, <1>4, <3>1, StatusTyped
    <2>2. QED
        BY <1>2, <1>3, <1>4, <2>1 DEF After, WarehouseAfter, Changed
<1>5. CASE o.item \notin Warehouses /\ o.item \in Locations
    <2>1. o.kind \in DOMAIN LocationStatusAfter
              => [d EXCEPT !.status = LocationStatusAfter[o.kind]] \in Data(o.item)
        <3>1. o.kind \in DOMAIN LocationStatusAfter
                  => LocationStatusAfter[o.kind] \in LocationStatuses
            BY DEF LocationStatusAfter, LocationStatuses
        <3>2. QED
            BY <1>1, <1>5, <3>1, StatusTyped
    <2>2. QED
        BY <1>2, <1>3, <1>5, <2>1 DEF After, LocationAfter, Changed
<1>6. CASE o.item \notin Warehouses /\ o.item \notin Locations
    <2>1. o.kind \in DOMAIN EntryStatusAfter
              => [d EXCEPT !.status = EntryStatusAfter[o.kind]] \in Data(o.item)
        <3>1. o.kind \in DOMAIN EntryStatusAfter => EntryStatusAfter[o.kind] \in EntryStatuses
            BY DEF EntryStatusAfter, EntryStatuses
        <3>2. QED
            BY <1>1, <1>6, <3>1, StatusTyped
    <2>2. QED
        BY <1>2, <1>3, <1>6, <2>1 DEF After, EntryAfter, Changed
<1>7. QED
    BY <1>4, <1>5, <1>6

LEMMA NewTyped ==
    ASSUME NEW o, Offered(o), o.kind = "Create"
    PROVE  New(o) \in Data(o.item)
<1> DEFINE x == o.item
<1>1. PICK e \in Data(x) : \A f \in DOMAIN o.change : o.change[f] = e[f]
    BY DEF Offered
<1>2. x \in Records /\ DOMAIN o.change = Forms(x)["Create"]
    BY DEF Offered
<1>3. CASE x \in Warehouses
    BY <1>1, <1>2, <1>3 DEF New, NewWarehouse, Data, WarehouseData, Forms, WarehouseForms,
        WarehouseStatuses
<1>4. CASE x \notin Warehouses /\ x \in Locations
    BY <1>1, <1>2, <1>4 DEF New, NewLocation, Data, LocationData, Forms, LocationForms,
        LocationStatuses
<1>5. CASE x \notin Warehouses /\ x \notin Locations
    <2>1. x \in Entries
        BY <1>2, <1>5 DEF Records
    <2>2. Of(x).forms["Create"] = {"name"}
        BY <2>1 DEF Of, Entries, Catalogued, BrandForms, CategoryForms, UnitForms, SupplierForms,
            CustomerForms, ProductForms
    <2>3. o.change.name = e.name
        BY <1>1, <1>2, <1>5, <2>2 DEF Forms
    <2>4. CASE x \in Products
        BY <1>1, <1>5, <2>3, <2>4 DEF New, NewEntry, NewProduct, Data, EntryData, ProductData,
            EntryStatuses
    <2>5. CASE x \notin Products
        BY <1>1, <1>5, <2>3, <2>5 DEF New, NewEntry, Data, EntryData, EntryStatuses
    <2>6. QED
        BY <2>4, <2>5
<1>6. QED
    BY <1>3, <1>4, <1>5

\* Only a product's row drops fields, and those it drops are flags.
LEMMA StoreDrops ==
    ASSUME NEW x \in Records
    PROVE  Store(x).drops \subseteq {"references", "documents"}
           /\ (x \in Warehouses \cup Locations => Store(x).drops = {})
BY DEF Store, Records, WarehouseStore, LocationStore, Entries, Of, Catalogued, BrandStore,
    CategoryStore, UnitStore, SupplierStore, CustomerStore, ProductStore

LEMMA RowTyped ==
    ASSUME NEW x \in Records, NEW d \in Data(x)
    PROVE  ToRow(x, d) \in Data(x)
<1>1. CASE x \in Warehouses
    BY <1>1, StoreDrops DEF Data, WarehouseData, ToRow
<1>2. CASE x \notin Warehouses /\ x \in Locations
    BY <1>2, StoreDrops DEF Data, LocationData, ToRow
<1>3. CASE x \notin Warehouses /\ x \notin Locations /\ x \in Products
    BY <1>3, StoreDrops DEF Data, EntryData, ProductData, ToRow
<1>4. CASE x \notin Warehouses /\ x \notin Locations /\ x \notin Products
    BY <1>4, StoreDrops DEF Data, EntryData, ToRow
<1>5. QED
    BY <1>1, <1>2, <1>3, <1>4

\* Layout rows are stored as they are.
LEMMA RowWhole ==
    ASSUME NEW x \in Warehouses \cup Locations, NEW d \in Data(x)
    PROVE  ToRow(x, d) = d
<1>1. x \in Records /\ Store(x).drops = {}
    BY StoreDrops DEF Records
<1>2. CASE x \in Warehouses
    BY <1>1, <1>2 DEF Data, WarehouseData, ToRow
<1>3. CASE x \notin Warehouses
    BY <1>1, <1>3 DEF Data, LocationData, ToRow
<1>4. QED
    BY <1>2, <1>3

-----------------------------------------------------------------------------
(* The type invariant. *)

LEMMA SomebodySteps ==
    ASSUME Next
    PROVE  \E r \in Requests :
             \/ VerifyWarehouse(r) \/ Load(r) \/ Check(r) \/ Refuse(r) \/ Write(r)
             \/ PublishInside(r) \/ Commit(r) \/ Abort(r) \/ PublishAfter(r)
             \/ DieUnannounced(r) \/ AnswerConflict(r)
BY Zenon DEF Next

\* The version a write stores is typed, and so is its data.
LEMMA DraftTyped ==
    ASSUME IInv, TypeOK, NEW r \in Requests, Commit(r)
    PROVE  IsRow(Draft(r), Item(r))
<1>1. Item(r) \in Records /\ Offered(op[r])
    BY ItemType DEF IInv, Shaped
<1>2. loaded[r].version \in Nat
    BY DEF IInv, Shaped
<1>3. CASE Creates(r)
    <2>1. New(op[r]) \in Data(Item(r))
        BY <1>1, <1>3, NewTyped DEF Creates, Item
    <2>2. ToRow(Item(r), New(op[r])) \in Data(Item(r))
        BY <1>1, <2>1, RowTyped
    <2>3. QED
        BY <1>2, <1>3, <2>2 DEF Draft, IsRow
<1>4. CASE ~Creates(r)
    <2>1. loaded[r] # Absent
        BY <1>4, CommitReplaces, AbsentType
    <2>2. loaded[r].data \in Data(Item(r))
        BY <2>1 DEF TypeOK, IsRow
    <2>3. After(op[r], loaded[r].data) \in Data(Item(r))
        BY <1>1, <2>2, AfterTyped DEF Item
    <2>4. ToRow(Item(r), After(op[r], loaded[r].data)) \in Data(Item(r))
        BY <1>1, <2>3, RowTyped
    <2>5. QED
        BY <1>2, <1>4, <2>4 DEF Draft, IsRow
<1>5. QED
    BY <1>3, <1>4

LEMMA RowsStayTyped ==
    ASSUME IInv, TypeOK, Next
    PROVE  \A x \in Records : IsRow(row[x], x)'
<1>1. SUFFICES ASSUME NEW x \in Records PROVE IsRow(row'[x], x)
    BY DEF IsRow
<1>2. CASE row'[x] = row[x]
    BY <1>2 DEF TypeOK
<1>3. CASE row'[x] # row[x]
    <2>1. PICK r \in Requests : Commit(r) /\ Item(r) = x
        BY <1>3, OnlyCommitsWrite
    <2>2. QED
        BY <2>1, DraftTyped, CommitReplaces
<1>4. QED
    BY <1>2, <1>3

LEMMA OthersLeave ==
    ASSUME IInv, NEW q \in Requests, NEW r \in Requests, q # r,
           \/ VerifyWarehouse(r) \/ Load(r) \/ Check(r) \/ Refuse(r) \/ Write(r)
           \/ PublishInside(r) \/ Commit(r) \/ Abort(r) \/ PublishAfter(r)
           \/ DieUnannounced(r) \/ AnswerConflict(r)
    PROVE  pc'[q] = pc[q] /\ loaded'[q] = loaded[q] /\ announced'[q] = announced[q]
<1>1. pc'[q] = pc[q]
    BY DEF VerifyWarehouse, Load, Check, Refuse, Write, PublishInside, Commit, Abort,
        PublishAfter, DieUnannounced, AnswerConflict, GoTo, IInv, Shaped
<1>2. loaded'[q] = loaded[q]
    BY DEF VerifyWarehouse, Load, Check, Refuse, Write, PublishInside, Commit, Abort,
        PublishAfter, DieUnannounced, AnswerConflict, IInv, Shaped
<1>3. announced'[q] = announced[q]
    BY DEF VerifyWarehouse, Load, Check, Refuse, Write, PublishInside, Commit, Abort,
        PublishAfter, DieUnannounced, AnswerConflict, IInv, Shaped
<1>4. QED
    BY <1>1, <1>2, <1>3

LEMMA CommandsStand ==
    ASSUME Next
    PROVE  UNCHANGED op
BY DEF Next, VerifyWarehouse, Load, Check, Refuse, Write, PublishInside, Commit, Abort,
    PublishAfter, DieUnannounced, AnswerConflict

LEMMA ReadsStayTyped ==
    ASSUME IInv, TypeOK, Next, NEW q \in Requests
    PROVE  /\ IsRow(loaded'[q], Item(q))
           /\ Creates(q) \/ pc'[q] \in {"load", "refused"} \/ loaded'[q].version > 0
           /\ announced'[q] # {} => announced'[q] = Events(op[q], loaded'[q].data)
<1>1. PICK r \in Requests :
        \/ VerifyWarehouse(r) \/ Load(r) \/ Check(r) \/ Refuse(r) \/ Write(r)
        \/ PublishInside(r) \/ Commit(r) \/ Abort(r) \/ PublishAfter(r)
        \/ DieUnannounced(r) \/ AnswerConflict(r)
    BY SomebodySteps
<1>2. CASE q # r
    BY <1>1, <1>2, OthersLeave DEF TypeOK
<1>3. CASE q = r /\ ~Load(r)
    <2>1. UNCHANGED loaded
        BY <1>1, <1>3 DEF VerifyWarehouse, Check, Refuse, Write, PublishInside, Commit, Abort,
            PublishAfter, DieUnannounced, AnswerConflict
    <2>2. Creates(q) \/ pc'[q] \in {"load", "refused"} \/ loaded[q].version > 0
        BY <1>1, <1>3 DEF VerifyWarehouse, Check, Refuse, Write, PublishInside, Commit, Abort,
            PublishAfter, DieUnannounced, AnswerConflict, Decided, Uncommitted, PublishesInside,
            GoTo, TypeOK, IInv, Shaped, Fresh
    <2>3. announced'[q] # {} => announced'[q] = Events(op[q], loaded[q].data)
        <3>1. CASE UNCHANGED announced
            BY <3>1 DEF TypeOK
        <3>2. CASE PublishInside(r) \/ PublishAfter(r)
            BY <1>3, <3>2 DEF PublishInside, PublishAfter, IInv, Shaped
        <3>3. QED
            BY <1>1, <1>3, <3>1, <3>2 DEF VerifyWarehouse, Check, Refuse, Write, Commit, Abort,
                DieUnannounced, AnswerConflict
    <2>4. QED
        BY <2>1, <2>2, <2>3 DEF TypeOK
<1>4. CASE q = r /\ Load(r)
    <2>1. announced'[q] = {}
        BY <1>4 DEF Load, IInv, Fresh
    <2>2. CASE Visible(Item(q), op[q].company)
        <3>1. Item(q) \in Records
            BY ItemType DEF IInv
        <3>2. loaded'[q] = row[Item(q)]
            BY <1>4, <2>2 DEF Load, IInv, Shaped
        <3>3. row[Item(q)].version > 0
            BY <2>2 DEF Visible, Live
        <3>4. QED
            BY <2>1, <3>1, <3>2, <3>3 DEF TypeOK
    <2>3. CASE ~Visible(Item(q), op[q].company)
        <3>1. UNCHANGED loaded /\ pc'[q] = "refused"
            BY <1>4, <2>3 DEF Load, GoTo, IInv, Shaped
        <3>2. QED
            BY <2>1, <3>1 DEF TypeOK
    <2>4. QED
        BY <2>2, <2>3
<1>5. QED
    BY <1>2, <1>3, <1>4

LEMMA TypeStep ==
    ASSUME IInv, IInv', TypeOK, Next
    PROVE  TypeOK'
<1>1. UNCHANGED op
    BY CommandsStand
<1>2. \A q \in Requests : Item(q)' = Item(q) /\ (Creates(q)' <=> Creates(q))
    BY <1>1, SameCommand
<1>3. DOMAIN row' = Records /\ told' \in [Requests -> Nat] /\ pc' \in [Requests -> Labels]
    BY DEF IInv, Shaped
<1>4. \A x \in Records : IsRow(row'[x], x)
    BY RowsStayTyped DEF IsRow
<1>5. \A q \in Requests :
        /\ IsRow(loaded'[q], Item(q))
        /\ Creates(q) \/ pc'[q] \in {"load", "refused"} \/ loaded'[q].version > 0
        /\ announced'[q] # {} => announced'[q] = Events(op[q], loaded'[q].data)
    BY ReadsStayTyped
<1>6. QED
    BY <1>1, <1>2, <1>3, <1>4, <1>5 DEF TypeOK, IsRow, Labels, Events

LEMMA InitTypeOK == Init => TypeOK
<1> SUFFICES ASSUME Init PROVE TypeOK
    OBVIOUS
<1>1. IInv
    BY InitIInv
<1>2. PICK s \in Scenes : row = s.rows /\ op \in [Requests -> s.commands]
    BY DEF Init
<1>3. \A x \in Records : IsRow(row[x], x)
    BY <1>2, ScenesAssumption
<1>4. op \in [Requests -> Commands]
    BY <1>2 DEF Commands
<1>5. \A r \in Requests : /\ loaded[r] = Absent /\ announced[r] = {}
                          /\ Creates(r) \/ pc[r] = "load"
    BY DEF Init, Start, Creates
<1>6. DOMAIN row = Records /\ pc \in [Requests -> Labels] /\ told \in [Requests -> Nat]
    BY <1>1 DEF IInv, Shaped
<1>7. QED
    BY <1>3, <1>4, <1>5, <1>6 DEF TypeOK, IsRow, Labels

\* Every row, read row, label and answer has its type, and what was announced is
\* what the operation on the row that was read has to announce.
THEOREM TypesHold == Spec => []TypeOK
<1>1. TypeOK /\ IInv /\ IInv' /\ [Next]_vars => TypeOK'
    <2>1. SUFFICES ASSUME TypeOK, IInv, IInv', [Next]_vars PROVE TypeOK'
        OBVIOUS
    <2>2. CASE Next
        BY <2>1, <2>2, TypeStep
    <2>3. CASE UNCHANGED vars
        BY <2>1, <2>3 DEF TypeOK, IsRow, Item, Creates, Events, vars
    <2>4. QED
        BY <2>1, <2>2, <2>3
<1>2. QED
    BY InitTypeOK, <1>1, InductiveInvariant, PTL DEF Spec

-----------------------------------------------------------------------------
(* A write under way was accepted on the row it read. *)

Decisions ==
    \A r \in Requests : ~Creates(r) /\ pc[r] \in Uncommitted => Accepts(op[r], loaded[r].data)

LEMMA DecisionsStand ==
    ASSUME IInv, Decisions, Next
    PROVE  Decisions'
<1>1. UNCHANGED op /\ \A q \in Requests : Creates(q)' <=> Creates(q)
    BY CommandsStand, SameCommand
<1>2. PICK r \in Requests :
        \/ VerifyWarehouse(r) \/ Load(r) \/ Check(r) \/ Refuse(r) \/ Write(r)
        \/ PublishInside(r) \/ Commit(r) \/ Abort(r) \/ PublishAfter(r)
        \/ DieUnannounced(r) \/ AnswerConflict(r)
    BY SomebodySteps
<1>3. ASSUME NEW q \in Requests, ~Creates(q), pc'[q] \in Uncommitted
      PROVE  Accepts(op[q], loaded'[q].data)
    <2>1. CASE q # r
        BY <1>2, <1>3, <2>1, OthersLeave DEF Decisions
    <2>2. CASE q = r
        <3>1. UNCHANGED loaded /\ (Write(r) \/ pc[r] \in Uncommitted)
            BY <1>2, <1>3, <2>2 DEF VerifyWarehouse, Load, Check, Refuse, Write, PublishInside,
                Commit, Abort, PublishAfter, DieUnannounced, AnswerConflict, GoTo, Decided,
                Uncommitted, IInv, Shaped
        <3>2. CASE Write(r)
            BY <1>3, <2>2, <3>1, <3>2 DEF Write, Accepted
        <3>3. CASE pc[r] \in Uncommitted
            BY <1>3, <2>2, <3>1, <3>3 DEF Decisions
        <3>4. QED
            BY <3>1, <3>2, <3>3
    <2>3. QED
        BY <2>1, <2>2
<1>4. QED
    BY <1>1, <1>3 DEF Decisions, Accepts

LEMMA DecisionsHold == Spec => []Decisions
<1>1. Init => Decisions
    BY DEF Init, Start, Decisions, Uncommitted
<1>2. Decisions /\ IInv /\ [Next]_vars => Decisions'
    <2>1. SUFFICES ASSUME Decisions, IInv, [Next]_vars PROVE Decisions'
        OBVIOUS
    <2>2. CASE Next
        BY <2>1, <2>2, DecisionsStand
    <2>3. CASE UNCHANGED vars
        BY <2>1, <2>3 DEF Decisions, Accepts, Creates, vars
    <2>4. QED
        BY <2>1, <2>2, <2>3
<1>3. QED
    BY <1>1, <1>2, InductiveInvariant, PTL DEF Spec

-----------------------------------------------------------------------------
(* Active warehouses, locks and suspensions. *)

\* What a warehouse's aggregate makes of a fit warehouse is fit, or not active.
LEMMA WarehouseStaysReady ==
    ASSUME NEW d \in WarehouseData, NEW kind \in DOMAIN WarehouseForms, NEW change,
           DOMAIN change \subseteq WarehouseForms[kind],
           WarehouseAccepts(kind, change, d),
           d.status = "ACTIVE" => Ready(d),
           WarehouseAfter(kind, change, d).status = "ACTIVE"
    PROVE  Ready(WarehouseAfter(kind, change, d)) \/ WarehouseAfter(kind, change, d).archived
<1>1. CASE kind \in DOMAIN WarehouseStatusAfter
    <2>1. kind = "Activate" /\ Ready(d)
        BY <1>1 DEF WarehouseAfter, Changed, WarehouseStatusAfter, WarehouseData,
            WarehouseAccepts, CanActivate
    <2>2. WarehouseAfter(kind, change, d) = [d EXCEPT !.status = "ACTIVE"]
        BY <1>1, <2>1 DEF WarehouseAfter, Changed, WarehouseStatusAfter
    <2>3. QED
        BY <2>1, <2>2 DEF Ready, HasZone, ZoneFields, WarehouseData
<1>2. CASE kind \notin DOMAIN WarehouseStatusAfter /\ kind = "Archive"
    BY <1>2 DEF WarehouseAfter, Changed, WarehouseData
<1>3. CASE kind \notin DOMAIN WarehouseStatusAfter /\ kind # "Archive"
    <2>1. WarehouseAfter(kind, change, d) = Amend(d, change)
        BY <1>3 DEF WarehouseAfter, Changed
    <2>2. "status" \notin DOMAIN change
        BY <1>3 DEF WarehouseForms, WarehouseStatusAfter, ZoneFields
    <2>3. d.status = "ACTIVE" /\ Ready(d)
        BY <2>1, <2>2 DEF Amend, WarehouseData
    <2>4. \A f \in {"address", "contact"} \cup ZoneFields : ~Clears(change, f)
        BY <2>3 DEF WarehouseAccepts, KeepsAddress, KeepsContact, NamesZones
    <2>5. QED
        BY <2>1, <2>3, <2>4 DEF Amend, Clears, Ready, HasZone, ZoneFields, WarehouseData
<1>4. QED
    BY <1>1, <1>2, <1>3

\* What a commit on an existing warehouse or location stores.
LEMMA CommitApplies ==
    ASSUME IInv, TypeOK, Decisions, NEW r \in Requests, Commit(r), ~Creates(r),
           Item(r) \in Warehouses \cup Locations
    PROVE  /\ row[Item(r)].data \in Data(Item(r))
           /\ Accepts(op[r], row[Item(r)].data)
           /\ row'[Item(r)].data = After(op[r], row[Item(r)].data)
<1>1. Item(r) \in Records /\ Offered(op[r])
    BY ItemType DEF IInv, Shaped
<1>2. row[Item(r)] # Absent
    BY CommitReplaces, AbsentType
<1>3. row[Item(r)].data \in Data(Item(r))
    BY <1>1, <1>2 DEF TypeOK, IsRow
<1>4. Accepts(op[r], row[Item(r)].data)
    BY CommitReplaces DEF Decisions
<1>5. After(op[r], row[Item(r)].data) \in Data(Item(r))
    BY <1>1, <1>3, AfterTyped DEF Item
<1>6. row'[Item(r)].data = ToRow(Item(r), After(op[r], row[Item(r)].data))
    <2>1. row'[Item(r)] = Draft(r) /\ loaded[r] = row[Item(r)]
        BY CommitReplaces
    <2>2. QED
        BY <2>1 DEF Draft
<1>7. QED
    BY <1>3, <1>4, <1>5, <1>6, RowWhole

LEMMA ReadyStep ==
    ASSUME IInv, TypeOK, Decisions, ActiveIsReady, Next
    PROVE  ActiveIsReady'
<1>1. SUFFICES ASSUME NEW w \in Warehouses, Live(row'[w]), row'[w].data.status = "ACTIVE"
               PROVE  Ready(row'[w].data)
    BY DEF ActiveIsReady, Live, Ready, HasZone
<1>2. w \in Records
    BY DEF Records
<1>3. CASE row'[w] = row[w]
    BY <1>1, <1>3 DEF ActiveIsReady
<1>4. CASE row'[w] # row[w]
    <2>1. PICK r \in Requests : Commit(r) /\ Item(r) = w
        BY <1>2, <1>4, OnlyCommitsWrite
    <2>2. Offered(op[r])
        BY DEF IInv, Shaped
    <2>3. CASE Creates(r)
        <3>1. New(op[r]) \in Data(w) /\ New(op[r]).status = "DRAFT"
            BY <2>1, <2>2, <2>3, NewTyped DEF Creates, Item, New, NewWarehouse
        <3>2. row'[w] = Draft(r)
            BY <2>1, CommitReplaces
        <3>3. row'[w].data = ToRow(w, New(op[r]))
            BY <2>1, <2>3, <3>2 DEF Draft
        <3>4. row'[w].data.status = "DRAFT"
            BY <3>1, <3>3, RowWhole
        <3>5. QED
            BY <1>1, <3>4
    <2>4. CASE ~Creates(r)
        <3> DEFINE d == row[w].data
        <3>1. d \in Data(w) /\ Accepts(op[r], d) /\ row'[w].data = After(op[r], d)
            BY <2>1, <2>4, CommitApplies
        <3>2. Live(row[w])
            BY <2>1, <2>4, CommitReplaces, AbsentType
        <3>3. d.status = "ACTIVE" => Ready(d)
            BY <3>2 DEF ActiveIsReady
        <3> HIDE DEF d
        <3>4. op[r].item = w /\ op[r].kind \in DOMAIN WarehouseForms
              /\ DOMAIN op[r].change \subseteq WarehouseForms[op[r].kind]
            BY <2>1, <2>2 DEF Item, Offered, Forms
        <3>5. d \in WarehouseData /\ WarehouseAccepts(op[r].kind, op[r].change, d)
              /\ row'[w].data = WarehouseAfter(op[r].kind, op[r].change, d)
            BY <3>1, <3>4 DEF Data, Accepts, After
        <3>6. ~row'[w].data.archived
            BY <1>1 DEF Live
        <3>7. QED
            BY <1>1, <3>3, <3>4, <3>5, <3>6, WarehouseStaysReady
    <2>5. QED
        BY <2>3, <2>4
<1>5. QED
    BY <1>3, <1>4

\* An active warehouse has an address, a contact and a zone, however its edits and
\* its activation interleave (Activate, ChangeAddress, ChangeContact).
THEOREM ActiveStaysReady == Spec => []ActiveIsReady
<1>1. Init => ActiveIsReady
    <2>1. SUFFICES ASSUME Init PROVE ActiveIsReady
        OBVIOUS
    <2>2. PICK s \in Scenes : row = s.rows
        BY <2>1 DEF Init
    <2>3. QED
        BY <2>2, ScenesAssumption DEF ActiveIsReady
<1>2. ActiveIsReady /\ TypeOK /\ Decisions /\ IInv /\ [Next]_vars => ActiveIsReady'
    <2>1. SUFFICES ASSUME ActiveIsReady, TypeOK, Decisions, IInv, [Next]_vars PROVE ActiveIsReady'
        OBVIOUS
    <2>2. CASE Next
        BY <2>1, <2>2, ReadyStep
    <2>3. CASE UNCHANGED vars
        BY <2>1, <2>3 DEF ActiveIsReady, Live, Ready, HasZone, vars
    <2>4. QED
        BY <2>1, <2>2, <2>3
<1>3. QED
    BY <1>1, <1>2, InductiveInvariant, TypesHold, DecisionsHold, PTL DEF Spec

\* What the aggregates let go of a hold.
LEMMA WarehouseHolds ==
    ASSUME NEW d \in WarehouseData, NEW kind \in DOMAIN WarehouseForms, NEW change,
           DOMAIN change \subseteq WarehouseForms[kind],
           WarehouseAccepts(kind, change, d), d.status \in {"LOCKED", "SUSPENDED"},
           WarehouseAfter(kind, change, d).status # d.status
    PROVE  kind = "Activate"
<1>1. CASE kind \in DOMAIN WarehouseStatusAfter
    BY <1>1 DEF WarehouseAfter, Changed, WarehouseStatusAfter, WarehouseData, WarehouseStatuses,
        WarehouseAccepts, CanDeactivate
<1>2. CASE kind \notin DOMAIN WarehouseStatusAfter /\ kind = "Archive"
    BY <1>2 DEF WarehouseAfter, Changed, WarehouseData
<1>3. CASE kind \notin DOMAIN WarehouseStatusAfter /\ kind # "Archive"
    <2>1. "status" \notin DOMAIN change
        BY <1>3 DEF WarehouseForms, WarehouseStatusAfter, ZoneFields
    <2>2. QED
        BY <1>3, <2>1 DEF WarehouseAfter, Changed, Amend, WarehouseData
<1>4. QED
    BY <1>1, <1>2, <1>3

LEMMA LocationHolds ==
    ASSUME NEW d \in LocationData, NEW kind \in DOMAIN LocationForms, NEW change,
           DOMAIN change \subseteq LocationForms[kind],
           LocationAccepts(kind, change, d), d.status \in {"LOCKED", "SUSPENDED"},
           LocationAfter(kind, change, d).status # d.status
    PROVE  kind = "Unlock"
<1>1. CASE kind \in DOMAIN LocationStatusAfter
    BY <1>1 DEF LocationAfter, Changed, LocationStatusAfter, LocationData, LocationStatuses,
        LocationAccepts, NotLocked
<1>2. CASE kind \notin DOMAIN LocationStatusAfter /\ kind = "Archive"
    BY <1>2 DEF LocationAfter, Changed, LocationData
<1>3. CASE kind \notin DOMAIN LocationStatusAfter /\ kind # "Archive"
    <2>1. "status" \notin DOMAIN change
        BY <1>3 DEF LocationForms, LocationStatusAfter
    <2>2. QED
        BY <1>3, <2>1 DEF LocationAfter, Changed, Amend, LocationData
<1>4. QED
    BY <1>1, <1>2, <1>3

\* A lock is lifted only by an unlock, and a suspension only by an activation, that
\* read the row which carries it (Unlock, Deactivate, StartMaintenance).
THEOREM HoldsStay == Spec => HoldsStand
<1>1. ASSUME IInv, TypeOK, Decisions, [Next]_vars
      PROVE  [\A x \in Warehouses \cup Locations :
                 LET lifts == IF x \in Warehouses THEN "Activate" ELSE "Unlock"
                 IN  /\ row[x].version > 0
                     /\ row[x].data.status \in {"LOCKED", "SUSPENDED"}
                     /\ row'[x].data.status # row[x].data.status
                     => \E r \in Requests :
                          Item(r) = x /\ op[r].kind = lifts /\ loaded[r] = row[x]]_vars
    <2>1. CASE Next
        <3>1. SUFFICES ASSUME NEW x \in Warehouses \cup Locations, row[x].version > 0,
                              row[x].data.status \in {"LOCKED", "SUSPENDED"},
                              row'[x].data.status # row[x].data.status
                       PROVE  \E r \in Requests :
                                Item(r) = x /\ loaded[r] = row[x]
                                /\ op[r].kind = (IF x \in Warehouses THEN "Activate" ELSE "Unlock")
            OBVIOUS
        <3>2. x \in Records
            BY DEF Records
        <3>3. row'[x] # row[x]
            BY <3>1
        <3>4. PICK r \in Requests : Commit(r) /\ Item(r) = x
            BY <1>1, <2>1, <3>2, <3>3, OnlyCommitsWrite
        <3>5. loaded[r] = row[x] /\ ~Creates(r)
            BY <1>1, <3>1, <3>4, CommitReplaces, AbsentType
        <3> DEFINE d == row[x].data
        <3>6. d \in Data(x) /\ Accepts(op[r], d) /\ row'[x].data = After(op[r], d)
            BY <1>1, <3>4, <3>5, CommitApplies
        <3>7. Offered(op[r]) /\ op[r].item = x
            BY <1>1, <3>4 DEF IInv, Shaped, Item
        <3>8. d.status \in {"LOCKED", "SUSPENDED"} /\ After(op[r], d).status # d.status
            BY <3>1, <3>6
        <3> HIDE DEF d
        <3>9. CASE x \in Warehouses
            <4>1. /\ d \in WarehouseData /\ op[r].kind \in DOMAIN WarehouseForms
                  /\ DOMAIN op[r].change \subseteq WarehouseForms[op[r].kind]
                  /\ WarehouseAccepts(op[r].kind, op[r].change, d)
                  /\ WarehouseAfter(op[r].kind, op[r].change, d).status # d.status
                BY <3>6, <3>7, <3>8, <3>9 DEF Data, Accepts, After, Offered, Forms
            <4>2. op[r].kind = "Activate"
                BY <3>8, <4>1, WarehouseHolds
            <4>3. QED
                BY <3>4, <3>5, <3>9, <4>2
        <3>10. CASE x \notin Warehouses
            <4>1. /\ d \in LocationData /\ op[r].kind \in DOMAIN LocationForms
                  /\ DOMAIN op[r].change \subseteq LocationForms[op[r].kind]
                  /\ LocationAccepts(op[r].kind, op[r].change, d)
                  /\ LocationAfter(op[r].kind, op[r].change, d).status # d.status
                BY <3>6, <3>7, <3>8, <3>10 DEF Data, Accepts, After, Offered, Forms
            <4>2. op[r].kind = "Unlock"
                BY <3>8, <4>1, LocationHolds
            <4>3. QED
                BY <3>4, <3>5, <3>10, <4>2
        <3>11. QED
            BY <3>9, <3>10
    <2>2. CASE UNCHANGED vars
        BY <2>2
    <2>3. QED
        BY <1>1, <2>1, <2>2
<1>2. QED
    BY <1>1, InductiveInvariant, TypesHold, DecisionsHold, PTL DEF Spec, HoldsStand
=============================================================================
