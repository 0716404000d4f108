-------------------------- MODULE ComponentProofs --------------------------
(***************************************************************************)
(* Proofs about the directory lock, which this module extends, and some of *)
(* the components that rest on it, for every value of their constants: the *)
(* cloud plans (Cp), the checkpoints (Ck), the recoveries (Rc), the owner  *)
(* record (Ow), the ULW worktrees (Ul), the automations (Au), the atomic   *)
(* writes (Af) and the user's mcp.json (Mc).  Each part states the         *)
(* inductive invariant of its component and shows that no step breaks it.  *)
(***************************************************************************)
EXTENDS DirectoryLock, Integers, Sequences, FiniteSets, FiniteSetTheorems, TLAPS

(***************************************************************************)
(* The directory lock.  As long as no process has been killed, at most one *)
(* process stands between mkdir and rename (it "holds the name"), the      *)
(* directory the name reaches is that process's own, and nobody gets as    *)
(* far as a reclaim.                                                       *)
(***************************************************************************)
\* From mkdir until lock-release renames the directory away.
HolderPc == {"made", "statted", "entered", "published", "failed", "cleanup",
             "critical", "renewing", "owned", "release"}
HoldsName(p) == pc[p] \in HolderPc

\* Nobody has died, so nobody has found a dead owner.
NoReclaim == /\ \A p \in Proc : alive[p] /\ pc[p] \notin {"dead", "reclaim", "judge"}
             /\ residue["stale"] = {}

\* The name is held by one process at most, and shows it its own directory.
HeldByOne == \A p, q \in Proc : HoldsName(p) /\ HoldsName(q) => p = q
HeldName ==
    \A p \in Proc :
        /\ HoldsName(p) => name \in Ino
        /\ pc[p] \in {"statted", "entered", "failed", "cleanup", "release"} => seen[p] = name
        /\ pc[p] \in {"made", "statted", "entered"} => owner[name] = Empty
        /\ pc[p] \in {"published", "critical", "renewing", "owned", "release"} => owner[name] = MyToken(p)
        /\ pc[p] \in {"failed", "cleanup"} => owner[name] \in {Empty, MyToken(p)}

\* Only a release has a directory aside, and it is the caller's own.
AsideOwn ==
    \A p \in Proc :
        /\ aside[p] # NoIno => pc[p] = "released"
        /\ pc[p] = "released" => /\ aside[p] \in Ino /\ aside[p] = seen[p]
                                 /\ owner[aside[p]] = MyToken(p)

\* The token of a call is not on disk before the call publishes it.
TokenFresh ==
    \A p \in Proc : \A i \in Ino : \A n \in 0..MaxOps :
        owner[i] = <<p, n>> =>
            /\ n <= ops[p]
            /\ n = ops[p] => pc[p] \notin {"try", "inspect", "read", "made", "statted", "entered"}

Core == NoReclaim /\ HeldByOne /\ HeldName /\ AsideOwn /\ TokenFresh

-----------------------------------------------------------------------------
\* A token of the current call is a token.
LEMMA MyTokenType == ASSUME TypeOK, NEW p \in Proc PROVE MyToken(p) \in Token
  BY DEF TypeOK, MyToken, Token

\* A token is none of the markers.
LEMMA TokenMarkers ==
    \A p \in Proc : \A n \in 0..MaxOps : <<p, n>> \notin {Free, Empty, NoToken}
  BY MarkersAssumption DEF Token

\* A helper that judges has a directory to judge, and no one else has: without it
\* TypeOK is not inductive.
AsideHeld == \A p \in Proc : pc[p] \in {"judge", "released"} <=> aside[p] # NoIno
TypeInv == TypeOK /\ AsideHeld

LEMMA TypeInit == Init => TypeInv
  BY BoundAssumption, MarkersAssumption
     DEF Init, TypeInv, TypeOK, AsideHeld, Pc, HelperPc, CallerPc

LEMMA TypeStep == TypeInv /\ [Next]_vars => TypeInv'
<1> SUFFICES ASSUME TypeInv, [Next]_vars PROVE TypeInv'
  OBVIOUS
<1> USE BoundAssumption, MarkersAssumption DEF Pc, HelperPc, CallerPc
<1>t. TypeOK
  BY DEF TypeInv
<1>u. CASE UNCHANGED vars
  BY <1>u DEF vars, TypeInv, TypeOK, AsideHeld
<1>1. ASSUME NEW p \in Proc, Begin(p) PROVE TypeInv'
  BY <1>1, <1>t, MyTokenType DEF TypeInv, TypeOK, AsideHeld, Begin
<1>2. ASSUME NEW p \in Proc, Mkdir(p) PROVE TypeInv'
  BY <1>2, <1>t, MyTokenType DEF TypeInv, TypeOK, AsideHeld, Mkdir, Goto, Pinned
<1>3. ASSUME NEW p \in Proc, Stat(p) PROVE TypeInv'
  BY <1>3, <1>t, MyTokenType DEF TypeInv, TypeOK, AsideHeld, Stat, Goto
<1>4. ASSUME NEW p \in Proc, Enter(p) PROVE TypeInv'
  BY <1>4, <1>t, MyTokenType DEF TypeInv, TypeOK, AsideHeld, Enter
<1>5. ASSUME NEW p \in Proc, Publish(p) PROVE TypeInv'
  BY <1>5, <1>t, MyTokenType DEF TypeInv, TypeOK, AsideHeld, Publish
<1>6. ASSUME NEW p \in Proc, Acquired(p) PROVE TypeInv'
  BY <1>6, <1>t, MyTokenType DEF TypeInv, TypeOK, AsideHeld, Acquired, Goto
<1>7. ASSUME NEW p \in Proc, CleanupCheck(p) PROVE TypeInv'
  BY <1>7, <1>t, MyTokenType DEF TypeInv, TypeOK, AsideHeld, CleanupCheck, Goto
<1>8. ASSUME NEW p \in Proc, CleanupRemove(p) PROVE TypeInv'
  BY <1>8, <1>t, MyTokenType DEF TypeInv, TypeOK, AsideHeld, CleanupRemove, Goto
<1>9. ASSUME NEW p \in Proc, Inspect(p) PROVE TypeInv'
  BY <1>9, <1>t, MyTokenType DEF TypeInv, TypeOK, AsideHeld, Inspect
<1>10. ASSUME NEW p \in Proc, ReadEvidence(p) PROVE TypeInv'
  BY <1>10, <1>t, MyTokenType DEF TypeInv, TypeOK, AsideHeld, ReadEvidence, ProvenDead, OwnerAtName
<1>11. ASSUME NEW p \in Proc, ReclaimRename(p) PROVE TypeInv'
  BY <1>11, <1>t, MyTokenType DEF TypeInv, TypeOK, AsideHeld, ReclaimRename, MoveAside, Goto
<1>12. ASSUME NEW p \in Proc, ReclaimJudge(p) PROVE TypeInv'
  BY <1>12, <1>t, MyTokenType DEF TypeInv, TypeOK, AsideHeld, ReclaimJudge, RemoveAside, PutBack,
     Goto
<1>13. ASSUME NEW p \in Proc, RenewRead(p) PROVE TypeInv'
  BY <1>13, <1>t, MyTokenType DEF TypeInv, TypeOK, AsideHeld, RenewRead, OwnerAtName
<1>14. ASSUME NEW p \in Proc, RenewWrite(p) PROVE TypeInv'
  BY <1>14, <1>t, MyTokenType DEF TypeInv, TypeOK, AsideHeld, RenewWrite, Pinned
<1>15. ASSUME NEW p \in Proc, ReleaseRead(p) PROVE TypeInv'
  BY <1>15, <1>t, MyTokenType DEF TypeInv, TypeOK, AsideHeld, ReleaseRead, OwnerAtName
<1>16. ASSUME NEW p \in Proc, ReleaseStat(p) PROVE TypeInv'
  BY <1>16, <1>t, MyTokenType DEF TypeInv, TypeOK, AsideHeld, ReleaseStat
<1>17. ASSUME NEW p \in Proc, ReleaseRename(p) PROVE TypeInv'
  BY <1>17, <1>t, MyTokenType DEF TypeInv, TypeOK, AsideHeld, ReleaseRename, MoveAside, Goto
<1>18. ASSUME NEW p \in Proc, ReleaseJudge(p) PROVE TypeInv'
  BY <1>18, <1>t, MyTokenType DEF TypeInv, TypeOK, AsideHeld, ReleaseJudge, RemoveAside, PutBack,
     Goto
<1>19. ASSUME NEW p \in Proc, Expire(p) PROVE TypeInv'
  BY <1>19, <1>t, MyTokenType DEF TypeInv, TypeOK, AsideHeld, Expire
<1>20. ASSUME NEW p \in Proc, HelperDies(p) PROVE TypeInv'
  BY <1>20, <1>t, MyTokenType DEF TypeInv, TypeOK, AsideHeld, HelperDies, Abandon, OwnerAtName
<1>21. ASSUME NEW p \in Proc, Crash(p) PROVE TypeInv'
  BY <1>21, <1>t, MyTokenType DEF TypeInv, TypeOK, AsideHeld, Crash, Abandon
<1> QED
  BY <1>u, <1>1, <1>2, <1>3, <1>4, <1>5, <1>6, <1>7, <1>8, <1>9, <1>10, <1>11, <1>12, <1>13,
     <1>14, <1>15, <1>16, <1>17, <1>18, <1>19, <1>20, <1>21 DEF Next, Acquire, Reclaim, Renew,
     Release

\* The initial state satisfies the strengthened invariant: nobody holds the name.
IInv == TypeInv /\ (crashes = 0 => Core)

LEMMA IInvInit == Init => IInv
<1> SUFFICES ASSUME Init PROVE Core
  BY TypeInit DEF IInv
<1>1. NoReclaim /\ HeldByOne /\ HeldName
  BY MarkersAssumption DEF Init, NoReclaim, HeldByOne, HeldName, HoldsName, HolderPc
<1>2. AsideOwn /\ TokenFresh
  BY TokenMarkers, MarkersAssumption DEF Init, AsideOwn, TokenFresh
<1> QED
  BY <1>1, <1>2 DEF Core

\* As long as nobody has been killed, every step preserves Core.
LEMMA CoreStep ==
    ASSUME TypeInv, TypeInv', Core, crashes' = 0, [Next]_vars
    PROVE  Core'
<1> USE MarkersAssumption
<1>t. TypeOK /\ TypeOK'
  BY DEF TypeInv
<1>m. \A q \in Proc : MyToken(q) \notin {Free, Empty, NoToken}
  BY <1>t, TokenMarkers DEF TypeOK, MyToken
<1>k. /\ \A q \in Proc : MyToken(q) \in Token
      /\ \A q \in Proc : \A n \in 0..MaxOps : <<q, n>> \in Token
      /\ \A q, r \in Proc : MyToken(q) = MyToken(r) => q = r
  BY <1>t DEF TypeOK, MyToken, Token
<1>u. CASE UNCHANGED vars
  BY <1>u DEF vars, Core, NoReclaim, HeldByOne, HeldName, AsideOwn, TokenFresh, HoldsName, MyToken
<1>1. ASSUME NEW p \in Proc, Begin(p) PROVE Core'
  <2>1. NoReclaim'
    BY <1>1, <1>t DEF TypeOK, Core, NoReclaim, Begin
  <2>2. HeldByOne'
    BY <1>1, <1>t DEF TypeOK, Core, HeldByOne, HeldName, HoldsName, HolderPc, Begin
  <2>3. HeldName'
    BY <1>1, <1>t, <1>m DEF TypeOK, Core, HeldByOne, HeldName, HoldsName, HolderPc, MyToken, Begin
  <2>4. AsideOwn'
    BY <1>1, <1>t, <1>m DEF TypeOK, Core, AsideOwn, HeldName, MyToken, Begin
  <2>5. TokenFresh'
    BY <1>1, <1>t, <1>m, TokenMarkers DEF TypeOK, Core, TokenFresh, HeldName, MyToken, Begin
  <2> QED
    BY <2>1, <2>2, <2>3, <2>4, <2>5 DEF Core
<1>2. ASSUME NEW p \in Proc, Mkdir(p) PROVE Core'
  <2>a. /\ UNCHANGED <<residue, aside, ops, seen, alive>>
        /\ \/ /\ UNCHANGED <<owner, name>>
              /\ pc' = [pc EXCEPT ![p] = "inspect"]
           \/ /\ name = NoIno
              /\ \E i \in Ino : /\ owner[i] = Free
                                /\ owner' = [owner EXCEPT ![i] = Empty]
                                /\ name' = i
              /\ pc' = [pc EXCEPT ![p] = "made"]
    BY <1>2, <1>t DEF TypeOK, Core, NoReclaim, Mkdir, Goto
  <2>b. pc[p] = "try"
    BY <1>2 DEF Mkdir
  <2>c. \A i \in Ino : owner[i] \in Token \/ owner'[i] \in Token => owner'[i] = owner[i]
    BY <2>a, <1>t, MarkersAssumption DEF TypeOK
  <2>1. NoReclaim'
    BY <2>a, <2>b, <1>t DEF TypeOK, Core, NoReclaim
  <2>2. HeldByOne'
    BY <2>a, <2>b, <1>t DEF TypeOK, Core, HeldByOne, HeldName, HoldsName, HolderPc
  <2>3. HeldName'
    BY <2>a, <2>b, <1>t, <1>m DEF TypeOK, Core, HeldByOne, HeldName, HoldsName, HolderPc, MyToken
  <2>4. AsideOwn'
    <3> SUFFICES ASSUME NEW q \in Proc
                 PROVE  /\ aside'[q] # NoIno => pc'[q] = "released"
                        /\ pc'[q] = "released" => /\ aside'[q] \in Ino /\ aside'[q] = seen'[q]
                                                 /\ owner'[aside'[q]] = MyToken(q)'
      BY DEF AsideOwn
    <3>1. MyToken(q)' = MyToken(q)
      BY <2>a, <2>b DEF MyToken
    <3> QED
      BY <3>1, <2>a, <2>b, <2>c, <1>t, <1>k DEF TypeOK, Core, AsideOwn
  <2>5. TokenFresh'
    <3> SUFFICES ASSUME NEW q \in Proc, NEW i \in Ino, NEW n \in 0..MaxOps, owner'[i] = <<q, n>>
                 PROVE  /\ n <= ops'[q]
                        /\ n = ops'[q] => pc'[q] \notin {"try", "inspect", "read", "made", "statted", "entered"}
      BY DEF TokenFresh
    <3>1. owner[i] = <<q, n>>
      BY <2>c, <1>k
    <3> QED
      BY <3>1, <2>a, <2>b, <1>t DEF TypeOK, Core, TokenFresh
  <2> QED
    BY <2>1, <2>2, <2>3, <2>4, <2>5 DEF Core
<1>3. ASSUME NEW p \in Proc, Stat(p) PROVE Core'
  <2>1. NoReclaim'
    BY <1>3, <1>t DEF TypeOK, Core, NoReclaim, Stat, Goto
  <2>2. HeldByOne'
    BY <1>3, <1>t DEF TypeOK, Core, HeldByOne, HeldName, HoldsName, HolderPc, Stat, Goto
  <2>3. HeldName'
    BY <1>3, <1>t, <1>m DEF TypeOK, Core, HeldByOne, HeldName, HoldsName, HolderPc, MyToken, Stat,
       Goto
  <2>4. AsideOwn'
    BY <1>3, <1>t, <1>m DEF TypeOK, Core, AsideOwn, HeldName, MyToken, Stat, Goto
  <2>5. TokenFresh'
    BY <1>3, <1>t, <1>m, TokenMarkers DEF TypeOK, Core, TokenFresh, HeldName, MyToken, Stat, Goto
  <2> QED
    BY <2>1, <2>2, <2>3, <2>4, <2>5 DEF Core
<1>4. ASSUME NEW p \in Proc, Enter(p) PROVE Core'
  <2>1. NoReclaim'
    BY <1>4, <1>t DEF TypeOK, Core, NoReclaim, Enter
  <2>2. HeldByOne'
    BY <1>4, <1>t DEF TypeOK, Core, HeldByOne, HeldName, HoldsName, HolderPc, Enter
  <2>3. HeldName'
    BY <1>4, <1>t, <1>m DEF TypeOK, Core, HeldByOne, HeldName, HoldsName, HolderPc, MyToken, Enter
  <2>4. AsideOwn'
    BY <1>4, <1>t, <1>m DEF TypeOK, Core, AsideOwn, HeldName, MyToken, Enter
  <2>5. TokenFresh'
    BY <1>4, <1>t, <1>m, TokenMarkers DEF TypeOK, Core, TokenFresh, HeldName, MyToken, Enter
  <2> QED
    BY <2>1, <2>2, <2>3, <2>4, <2>5 DEF Core
<1>5. ASSUME NEW p \in Proc, Publish(p) PROVE Core'
  <2>a. /\ pc[p] = "entered" /\ seen[p] = name /\ name \in Ino /\ owner[name] = Empty
    BY <1>5 DEF Publish, Core, HeldName, HoldsName, HolderPc
  <2>b. /\ \/ pc' = [pc EXCEPT ![p] = "failed"] /\ owner' = owner
           \/ /\ pc' \in {[pc EXCEPT ![p] = "published"], [pc EXCEPT ![p] = "failed"]}
              /\ owner' = [owner EXCEPT ![name] = MyToken(p)]
        /\ UNCHANGED <<name, aside, residue, ops, seen, alive>>
    BY <1>5, <2>a DEF Publish
  <2>1. NoReclaim'
    BY <2>a, <2>b, <1>t DEF TypeOK, Core, NoReclaim
  <2>2. HeldByOne'
    BY <2>a, <2>b, <1>t DEF TypeOK, Core, HeldByOne, HeldName, HoldsName, HolderPc
  <2>3. HeldName'
    BY <2>a, <2>b, <1>t, <1>m DEF TypeOK, Core, HeldByOne, HeldName, HoldsName, HolderPc, MyToken
  <2>4. AsideOwn'
    BY <2>a, <2>b, <1>t, <1>m DEF TypeOK, Core, AsideOwn, HeldName, MyToken
  <2>5. TokenFresh'
    BY <2>a, <2>b, <1>t, <1>m, TokenMarkers DEF TypeOK, Core, NoReclaim, HeldByOne, HeldName,
       AsideOwn, TokenFresh, HoldsName, HolderPc, MyToken
  <2> QED
    BY <2>1, <2>2, <2>3, <2>4, <2>5 DEF Core
<1>6. ASSUME NEW p \in Proc, Acquired(p) PROVE Core'
  <2>1. NoReclaim'
    BY <1>6, <1>t DEF TypeOK, Core, NoReclaim, Acquired, Goto
  <2>2. HeldByOne'
    BY <1>6, <1>t DEF TypeOK, Core, HeldByOne, HeldName, HoldsName, HolderPc, Acquired, Goto
  <2>3. HeldName'
    BY <1>6, <1>t, <1>m DEF TypeOK, Core, HeldByOne, HeldName, HoldsName, HolderPc, MyToken,
       Acquired, Goto
  <2>4. AsideOwn'
    BY <1>6, <1>t, <1>m DEF TypeOK, Core, AsideOwn, HeldName, MyToken, Acquired, Goto
  <2>5. TokenFresh'
    BY <1>6, <1>t, <1>m, TokenMarkers DEF TypeOK, Core, TokenFresh, HeldName, MyToken, Acquired,
       Goto
  <2> QED
    BY <2>1, <2>2, <2>3, <2>4, <2>5 DEF Core
<1>7. ASSUME NEW p \in Proc, CleanupCheck(p) PROVE Core'
  <2>1. NoReclaim'
    BY <1>7, <1>t DEF TypeOK, Core, NoReclaim, CleanupCheck, Goto
  <2>2. HeldByOne'
    BY <1>7, <1>t DEF TypeOK, Core, HeldByOne, HeldName, HoldsName, HolderPc, CleanupCheck, Goto
  <2>3. HeldName'
    BY <1>7, <1>t, <1>m DEF TypeOK, Core, HeldByOne, HeldName, HoldsName, HolderPc, MyToken,
       CleanupCheck, Goto
  <2>4. AsideOwn'
    BY <1>7, <1>t, <1>m DEF TypeOK, Core, AsideOwn, HeldName, MyToken, CleanupCheck, Goto
  <2>5. TokenFresh'
    BY <1>7, <1>t, <1>m, TokenMarkers DEF TypeOK, Core, TokenFresh, HeldName, MyToken,
       CleanupCheck, Goto
  <2> QED
    BY <2>1, <2>2, <2>3, <2>4, <2>5 DEF Core
<1>8. ASSUME NEW p \in Proc, CleanupRemove(p) PROVE Core'
  <2>a. /\ pc[p] = "cleanup" /\ name \in Ino /\ owner[name] \in {Empty, MyToken(p)}
    BY <1>8 DEF CleanupRemove, Core, HeldName, HoldsName, HolderPc
  <2>b. /\ owner' = [owner EXCEPT ![name] = Free] /\ name' = NoIno
        /\ pc' = [pc EXCEPT ![p] = "idle"]
        /\ UNCHANGED <<aside, residue, ops, seen, alive>>
    BY <1>8, <2>a, <1>t DEF CleanupRemove, Goto, TypeOK, Core, NoReclaim
  <2>c. /\ \A i \in Ino : owner'[i] \in Token => owner'[i] = owner[i]
        /\ \A i \in Ino : owner[i] \in Token /\ owner[i] # MyToken(p) => owner'[i] = owner[i]
    BY <2>a, <2>b, <1>t, MarkersAssumption DEF TypeOK
  <2>1. NoReclaim'
    BY <2>a, <2>b, <1>t DEF TypeOK, Core, NoReclaim
  <2>2. HeldByOne'
    BY <2>a, <2>b, <1>t DEF TypeOK, Core, HeldByOne, HeldName, HoldsName, HolderPc
  <2>3. HeldName'
    BY <2>a, <2>b, <1>t, <1>m DEF TypeOK, Core, HeldByOne, HeldName, HoldsName, HolderPc, MyToken
  <2>4. AsideOwn'
    <3> SUFFICES ASSUME NEW q \in Proc
                 PROVE  /\ aside'[q] # NoIno => pc'[q] = "released"
                        /\ pc'[q] = "released" => /\ aside'[q] \in Ino /\ aside'[q] = seen'[q]
                                                 /\ owner'[aside'[q]] = MyToken(q)'
      BY DEF AsideOwn
    <3>1. MyToken(q)' = MyToken(q)
      BY <2>a, <2>b DEF MyToken
    <3> QED
      BY <3>1, <2>a, <2>b, <2>c, <1>t, <1>k DEF TypeOK, Core, AsideOwn
  <2>5. TokenFresh'
    <3> SUFFICES ASSUME NEW q \in Proc, NEW i \in Ino, NEW n \in 0..MaxOps, owner'[i] = <<q, n>>
                 PROVE  /\ n <= ops'[q]
                        /\ n = ops'[q] => pc'[q] \notin {"try", "inspect", "read", "made", "statted", "entered"}
      BY DEF TokenFresh
    <3>1. owner[i] = <<q, n>>
      BY <2>c, <1>k
    <3> QED
      BY <3>1, <2>a, <2>b, <1>t DEF TypeOK, Core, TokenFresh
  <2> QED
    BY <2>1, <2>2, <2>3, <2>4, <2>5 DEF Core
<1>9. ASSUME NEW p \in Proc, Inspect(p) PROVE Core'
  <2>1. NoReclaim'
    BY <1>9, <1>t DEF TypeOK, Core, NoReclaim, Inspect
  <2>2. HeldByOne'
    BY <1>9, <1>t DEF TypeOK, Core, HeldByOne, HeldName, HoldsName, HolderPc, Inspect
  <2>3. HeldName'
    BY <1>9, <1>t, <1>m DEF TypeOK, Core, HeldByOne, HeldName, HoldsName, HolderPc, MyToken, Inspect
  <2>4. AsideOwn'
    BY <1>9, <1>t, <1>m DEF TypeOK, Core, AsideOwn, HeldName, MyToken, Inspect
  <2>5. TokenFresh'
    BY <1>9, <1>t, <1>m, TokenMarkers DEF TypeOK, Core, TokenFresh, HeldName, MyToken, Inspect
  <2> QED
    BY <2>1, <2>2, <2>3, <2>4, <2>5 DEF Core
<1>10. ASSUME NEW p \in Proc, ReadEvidence(p) PROVE Core'
  <2>a. /\ pc[p] = "read" /\ pc' = [pc EXCEPT ![p] = IF expired[p] THEN "idle" ELSE "try"]
        /\ UNCHANGED <<owner, name, aside, residue, ops, seen, alive>>
    <3>1. \A t \in Token : alive[t[1]]
      BY DEF Token, Core, NoReclaim
    <3> QED
      BY <1>10, <3>1 DEF ReadEvidence, ProvenDead
  <2>1. NoReclaim'
    BY <2>a, <1>t DEF TypeOK, Core, NoReclaim
  <2>2. HeldByOne'
    BY <2>a, <1>t DEF TypeOK, Core, HeldByOne, HeldName, HoldsName, HolderPc
  <2>3. HeldName'
    BY <2>a, <1>t, <1>m DEF TypeOK, Core, HeldByOne, HeldName, HoldsName, HolderPc, MyToken
  <2>4. AsideOwn'
    BY <2>a, <1>t, <1>m DEF TypeOK, Core, AsideOwn, HeldName, MyToken
  <2>5. TokenFresh'
    BY <2>a, <1>t, <1>m, TokenMarkers DEF TypeOK, Core, TokenFresh, HeldName, MyToken
  <2> QED
    BY <2>1, <2>2, <2>3, <2>4, <2>5 DEF Core
<1>11. ASSUME NEW p \in Proc, ReclaimRename(p) PROVE Core'
  BY <1>11, <1>t DEF ReclaimRename, Core, NoReclaim, TypeOK
<1>12. ASSUME NEW p \in Proc, ReclaimJudge(p) PROVE Core'
  BY <1>12, <1>t DEF ReclaimJudge, Core, NoReclaim, TypeOK
<1>13. ASSUME NEW p \in Proc, RenewRead(p) PROVE Core'
  <2>1. NoReclaim'
    BY <1>13, <1>t DEF TypeOK, Core, NoReclaim, RenewRead, OwnerAtName
  <2>2. HeldByOne'
    BY <1>13, <1>t DEF TypeOK, Core, HeldByOne, HeldName, HoldsName, HolderPc, RenewRead,
       OwnerAtName
  <2>3. HeldName'
    BY <1>13, <1>t, <1>m DEF TypeOK, Core, HeldByOne, HeldName, HoldsName, HolderPc, MyToken,
       RenewRead, OwnerAtName
  <2>4. AsideOwn'
    BY <1>13, <1>t, <1>m DEF TypeOK, Core, AsideOwn, HeldName, MyToken, RenewRead, OwnerAtName
  <2>5. TokenFresh'
    BY <1>13, <1>t, <1>m, TokenMarkers DEF TypeOK, Core, TokenFresh, HeldName, MyToken, RenewRead,
       OwnerAtName
  <2> QED
    BY <2>1, <2>2, <2>3, <2>4, <2>5 DEF Core
<1>14. ASSUME NEW p \in Proc, RenewWrite(p) PROVE Core'
  <2>1. NoReclaim'
    BY <1>14, <1>t DEF TypeOK, Core, NoReclaim, RenewWrite, Pinned
  <2>2. HeldByOne'
    BY <1>14, <1>t DEF TypeOK, Core, HeldByOne, HeldName, HoldsName, HolderPc, RenewWrite, Pinned
  <2>3. HeldName'
    BY <1>14, <1>t, <1>m DEF TypeOK, Core, HeldByOne, HeldName, HoldsName, HolderPc, MyToken,
       RenewWrite, Pinned
  <2>4. AsideOwn'
    BY <1>14, <1>t, <1>m DEF TypeOK, Core, AsideOwn, HeldName, MyToken, RenewWrite, Pinned
  <2>5. TokenFresh'
    BY <1>14, <1>t, <1>m, TokenMarkers DEF TypeOK, Core, TokenFresh, HeldName, MyToken,
       RenewWrite, Pinned
  <2> QED
    BY <2>1, <2>2, <2>3, <2>4, <2>5 DEF Core
<1>15. ASSUME NEW p \in Proc, ReleaseRead(p) PROVE Core'
  <2>1. NoReclaim'
    BY <1>15, <1>t DEF TypeOK, Core, NoReclaim, ReleaseRead, OwnerAtName
  <2>2. HeldByOne'
    BY <1>15, <1>t DEF TypeOK, Core, HeldByOne, HeldName, HoldsName, HolderPc, ReleaseRead,
       OwnerAtName
  <2>3. HeldName'
    BY <1>15, <1>t, <1>m DEF TypeOK, Core, HeldByOne, HeldName, HoldsName, HolderPc, MyToken,
       ReleaseRead, OwnerAtName
  <2>4. AsideOwn'
    BY <1>15, <1>t, <1>m DEF TypeOK, Core, AsideOwn, HeldName, MyToken, ReleaseRead, OwnerAtName
  <2>5. TokenFresh'
    BY <1>15, <1>t, <1>m, TokenMarkers DEF TypeOK, Core, TokenFresh, HeldName, MyToken,
       ReleaseRead, OwnerAtName
  <2> QED
    BY <2>1, <2>2, <2>3, <2>4, <2>5 DEF Core
<1>16. ASSUME NEW p \in Proc, ReleaseStat(p) PROVE Core'
  <2>1. NoReclaim'
    BY <1>16, <1>t DEF TypeOK, Core, NoReclaim, ReleaseStat
  <2>2. HeldByOne'
    BY <1>16, <1>t DEF TypeOK, Core, HeldByOne, HeldName, HoldsName, HolderPc, ReleaseStat
  <2>3. HeldName'
    BY <1>16, <1>t, <1>m DEF TypeOK, Core, HeldByOne, HeldName, HoldsName, HolderPc, MyToken,
       ReleaseStat
  <2>4. AsideOwn'
    BY <1>16, <1>t, <1>m DEF TypeOK, Core, AsideOwn, HeldName, MyToken, ReleaseStat
  <2>5. TokenFresh'
    BY <1>16, <1>t, <1>m, TokenMarkers DEF TypeOK, Core, TokenFresh, HeldName, MyToken, ReleaseStat
  <2> QED
    BY <2>1, <2>2, <2>3, <2>4, <2>5 DEF Core
<1>17. ASSUME NEW p \in Proc, ReleaseRename(p) PROVE Core'
  <2>1. NoReclaim'
    BY <1>17, <1>t DEF TypeOK, Core, NoReclaim, ReleaseRename, MoveAside, Goto
  <2>2. HeldByOne'
    BY <1>17, <1>t DEF TypeOK, Core, HeldByOne, HeldName, HoldsName, HolderPc, ReleaseRename,
       MoveAside, Goto
  <2>3. HeldName'
    BY <1>17, <1>t, <1>m DEF TypeOK, Core, HeldByOne, HeldName, HoldsName, HolderPc, MyToken,
       ReleaseRename, MoveAside, Goto
  <2>4. AsideOwn'
    BY <1>17, <1>t, <1>m DEF TypeOK, Core, AsideOwn, HeldName, MyToken, ReleaseRename, MoveAside,
       Goto
  <2>5. TokenFresh'
    BY <1>17, <1>t, <1>m, TokenMarkers DEF TypeOK, Core, TokenFresh, HeldName, MyToken,
       ReleaseRename, MoveAside, Goto
  <2> QED
    BY <2>1, <2>2, <2>3, <2>4, <2>5 DEF Core
<1>18. ASSUME NEW p \in Proc, ReleaseJudge(p) PROVE Core'
  <2>a. /\ pc[p] = "released" /\ aside[p] \in Ino /\ owner[aside[p]] = MyToken(p)
        /\ aside[p] = seen[p]
    BY <1>18 DEF ReleaseJudge, Core, AsideOwn
  <2>b. /\ owner' = [owner EXCEPT ![aside[p]] = Free] /\ aside' = [aside EXCEPT ![p] = NoIno]
        /\ pc' = [pc EXCEPT ![p] = "idle"]
        /\ UNCHANGED <<name, residue, ops, seen, alive>>
    BY <1>18, <2>a, <1>m, <1>t DEF ReleaseJudge, RemoveAside, Goto, TypeOK, Core, NoReclaim
  <2>c. /\ \A i \in Ino : owner'[i] \in Token => owner'[i] = owner[i]
        /\ \A i \in Ino : i # aside[p] => owner'[i] = owner[i]
    BY <2>a, <2>b, <1>t, MarkersAssumption DEF TypeOK
  <2>d. \A q \in Proc : HoldsName(q) => q # p /\ name # aside[p]
    BY <2>a, <1>t, <1>m, <1>k DEF TypeOK, Core, HeldName, HoldsName, HolderPc
  <2>1. NoReclaim'
    BY <2>a, <2>b, <1>t DEF TypeOK, Core, NoReclaim
  <2>2. HeldByOne'
    BY <2>a, <2>b, <1>t DEF TypeOK, Core, HeldByOne, HeldName, HoldsName, HolderPc
  <2>3. HeldName'
    BY <2>a, <2>b, <2>c, <2>d, <1>t DEF TypeOK, Core, HeldByOne, HeldName, HoldsName, HolderPc,
       MyToken
  <2>4. AsideOwn'
    BY <2>a, <2>b, <1>t, <1>m DEF TypeOK, Core, AsideOwn, HeldName, MyToken
  <2>5. TokenFresh'
    <3> SUFFICES ASSUME NEW q \in Proc, NEW i \in Ino, NEW n \in 0..MaxOps, owner'[i] = <<q, n>>
                 PROVE  /\ n <= ops'[q]
                        /\ n = ops'[q] => pc'[q] \notin {"try", "inspect", "read", "made", "statted", "entered"}
      BY DEF TokenFresh
    <3>1. owner[i] = <<q, n>>
      BY <2>c, <1>k
    <3> QED
      BY <3>1, <2>a, <2>b, <1>t DEF TypeOK, Core, TokenFresh
  <2> QED
    BY <2>1, <2>2, <2>3, <2>4, <2>5 DEF Core
<1>19. ASSUME NEW p \in Proc, Expire(p) PROVE Core'
  <2>1. NoReclaim'
    BY <1>19, <1>t DEF TypeOK, Core, NoReclaim, Expire
  <2>2. HeldByOne'
    BY <1>19, <1>t DEF TypeOK, Core, HeldByOne, HeldName, HoldsName, HolderPc, Expire
  <2>3. HeldName'
    BY <1>19, <1>t, <1>m DEF TypeOK, Core, HeldByOne, HeldName, HoldsName, HolderPc, MyToken, Expire
  <2>4. AsideOwn'
    BY <1>19, <1>t, <1>m DEF TypeOK, Core, AsideOwn, HeldName, MyToken, Expire
  <2>5. TokenFresh'
    BY <1>19, <1>t, <1>m, TokenMarkers DEF TypeOK, Core, TokenFresh, HeldName, MyToken, Expire
  <2> QED
    BY <2>1, <2>2, <2>3, <2>4, <2>5 DEF Core
<1>20. ASSUME NEW p \in Proc, HelperDies(p) PROVE Core'
  <2>1. NoReclaim'
    BY <1>20, <1>t DEF TypeOK, Core, NoReclaim, HelperDies, Abandon, OwnerAtName
  <2>2. HeldByOne'
    BY <1>20, <1>t, <1>m, TokenMarkers DEF TypeOK, Core, NoReclaim, HeldByOne, HeldName, AsideOwn,
       TokenFresh, HoldsName, HolderPc, MyToken, HelperDies, Abandon, OwnerAtName
  <2>3. HeldName'
    BY <1>20, <1>t, <1>m DEF TypeOK, Core, HeldByOne, HeldName, HoldsName, HolderPc, MyToken,
       HelperDies, Abandon, OwnerAtName
  <2>4. AsideOwn'
    BY <1>20, <1>t, <1>m DEF TypeOK, Core, AsideOwn, HeldName, MyToken, HelperDies, Abandon,
       OwnerAtName
  <2>5. TokenFresh'
    BY <1>20, <1>t, <1>m, TokenMarkers DEF TypeOK, Core, TokenFresh, HeldName, MyToken,
       HelperDies, Abandon, OwnerAtName
  <2> QED
    BY <2>1, <2>2, <2>3, <2>4, <2>5 DEF Core
<1>21. ASSUME NEW p \in Proc, Crash(p) PROVE Core'
  BY <1>21, <1>t DEF Crash, Core, NoReclaim, TypeOK
<1> QED
  BY <1>u, <1>1, <1>2, <1>3, <1>4, <1>5, <1>6, <1>7, <1>8, <1>9, <1>10, <1>11, <1>12, <1>13,
     <1>14, <1>15, <1>16, <1>17, <1>18, <1>19, <1>20, <1>21 DEF Next, Acquire, Reclaim, Renew,
     Release

\* The death of a process is never forgotten.
LEMMA CrashesGrow == ASSUME TypeInv, [Next]_vars, crashes' = 0 PROVE crashes = 0
<1> USE DEF TypeInv, TypeOK
<1>1. ASSUME NEW p \in Proc, Crash(p) PROVE crashes' # 0
  BY <1>1, BoundAssumption DEF Crash
<1>2. ASSUME NEW p \in Proc, Begin(p) \/ Acquire(p) \/ Reclaim(p) \/ Renew(p) \/ Release(p)
                             \/ Expire(p) \/ HelperDies(p)
      PROVE  crashes' = crashes
  BY <1>2 DEF Acquire, Reclaim, Renew, Release, Begin, Mkdir, Stat, Enter, Publish, Acquired,
     CleanupCheck, CleanupRemove, Inspect, ReadEvidence, ReclaimRename, ReclaimJudge, RenewRead,
     RenewWrite, ReleaseRead, ReleaseStat, ReleaseRename, ReleaseJudge, Expire, HelperDies
<1> QED
  BY <1>1, <1>2 DEF Next, vars

LEMMA IInvStep == IInv /\ [Next]_vars => IInv'
<1> SUFFICES ASSUME IInv, [Next]_vars PROVE IInv'
  OBVIOUS
<1>1. TypeInv /\ TypeInv'
  BY TypeStep DEF IInv
<1>2. ASSUME crashes' = 0 PROVE Core'
  BY <1>1, <1>2, CrashesGrow, CoreStep DEF IInv
<1> QED
  BY <1>1, <1>2 DEF IInv

LEMMA Invariance == Spec => []IInv
  BY IInvInit, IInvStep, PTL DEF Spec

-----------------------------------------------------------------------------
\* Every variable of the lock protocol keeps its type, whatever helpers and
\* processes die.
THEOREM LockTyped == Spec => []TypeOK
<1>1. IInv => TypeOK
  BY DEF IInv, TypeInv
<1> QED
  BY <1>1, Invariance, PTL

\* withDirectoryLock excludes for any number of processes, inodes, calls and
\* helper failures, heartbeats included, as long as no process has been killed:
\* whatever goes wrong with exclusion needs a reclaim.
THEOREM ExclusionUntilCrash == Spec => []ExclusiveUntilCrash
<1>1. IInv => ExclusiveUntilCrash
  BY DEF IInv, Core, HeldByOne, HoldsName, HolderPc, ExclusiveUntilCrash, MutualExclusion, InAction
<1> QED
  BY <1>1, Invariance, PTL

\* Under the same condition nobody but its process removes or replaces an
\* owner.json.
THEOREM LiveLocksAreKept == Spec => LiveLockKept
<1> DEFINE Kept == \A i \in Ino : crashes' = 0 /\ owner[i] \in Token /\ owner'[i] # owner[i]
                                   => pc'[owner[i][1]] # pc[owner[i][1]]
<1>1. IInv /\ IInv' /\ [Next]_vars => [Kept]_vars
  <2> SUFFICES ASSUME IInv, IInv', [Next]_vars, NEW i \in Ino, crashes' = 0,
                      owner[i] \in Token, owner'[i] # owner[i]
               PROVE  pc'[owner[i][1]] # pc[owner[i][1]]
    OBVIOUS
  <2>c. Core
    BY CrashesGrow DEF IInv
  <2>t. TypeOK
    BY DEF IInv, TypeInv
  <2>m. \A p \in Proc : MyToken(p)[1] = p /\ owner[i] # Free /\ owner[i] # Empty
    BY MarkersAssumption DEF MyToken
  <2>1. ASSUME NEW p \in Proc, CleanupRemove(p) PROVE pc'[owner[i][1]] # pc[owner[i][1]]
    <3>1. i = name /\ owner[i] = MyToken(p)
      BY <2>1, <2>c, <2>m DEF CleanupRemove, Core, HeldName, TypeOK
    <3> QED
      BY <3>1, <2>1, <2>m, <2>t DEF CleanupRemove, Goto, TypeOK
  <2>2. ASSUME NEW p \in Proc, ReleaseJudge(p) PROVE pc'[owner[i][1]] # pc[owner[i][1]]
    <3>0. aside[p] = seen[p] /\ owner[aside[p]] = MyToken(p)
      BY <2>2, <2>c DEF ReleaseJudge, Core, AsideOwn
    <3>1. i = aside[p] /\ owner[i] = MyToken(p)
      <4>1. MyToken(p) # Empty
        BY <2>t, TokenMarkers DEF TypeOK, MyToken
      <4>2. RemoveAside(p)
        BY <2>2, <3>0, <4>1 DEF ReleaseJudge
      <4> QED
        BY <3>0, <4>2, <2>t DEF RemoveAside, TypeOK
    <3> QED
      BY <3>1, <2>2, <2>m, <2>t DEF ReleaseJudge, Goto, TypeOK
  <2>3. ASSUME NEW p \in Proc, Mkdir(p) PROVE FALSE
    BY <2>3, <2>c, <2>m DEF Mkdir, Core, NoReclaim
  <2>4. ASSUME NEW p \in Proc, Publish(p) PROVE FALSE
    BY <2>4, <2>m, <2>t DEF Publish, TypeOK
  <2>5. ASSUME NEW p \in Proc, RenewWrite(p) PROVE FALSE
    BY <2>5, <2>c, <2>m, <2>t DEF RenewWrite, Core, HeldName, HoldsName, HolderPc, TypeOK
  <2>6. ASSUME NEW p \in Proc, ReclaimJudge(p) PROVE FALSE
    BY <2>6, <2>c DEF ReclaimJudge, Core, NoReclaim
  <2>7. owner' # owner
    OBVIOUS
  <2> QED
    BY <2>1, <2>2, <2>3, <2>4, <2>5, <2>6, <2>7
       DEF Next, vars, Acquire, Reclaim, Renew, Release, Begin, Stat, Enter, Acquired,
       CleanupCheck, Inspect, ReadEvidence, ReclaimRename, RenewRead, ReleaseRead, ReleaseStat,
       ReleaseRename, Expire, HelperDies, Crash
<1> QED
  BY <1>1, Invariance, PTL DEF Spec, LiveLockKept

-----------------------------------------------------------------------------
(***************************************************************************)
(* Directories and the names that reach them                               *)
(***************************************************************************)
\* The directories in use are those a name reaches, and no two names reach the same.
Reached(i) == name = i \/ (\E p \in Proc : aside[p] = i) \/ i \in residue["stale"] \/ i \in residue["release"]
Entries ==
    /\ \A i \in Ino : owner[i] # Free <=> Reached(i)
    /\ \A p, q \in Proc : aside[p] # NoIno /\ aside[p] = aside[q] => p = q
    /\ \A p \in Proc : aside[p] # NoIno => /\ aside[p] # name
                                           /\ aside[p] \notin residue["stale"] /\ aside[p] \notin residue["release"]
    /\ name \notin residue["stale"] /\ name \notin residue["release"]
    /\ residue["stale"] \cap residue["release"] = {}

\* Without failures a name that exists is held, and nothing is left behind.
Tidy == crashes = 0 /\ faults = 0 => /\ residue["release"] = {}
                                     /\ name # NoIno => \E p \in Proc : HoldsName(p)

LEMMA EntriesStep ==
    ASSUME TypeInv, Entries, [Next]_vars
    PROVE  Entries'
<1> USE MarkersAssumption
<1>t. TypeOK /\ AsideHeld
  BY DEF TypeInv
<1>m. \A p \in Proc : MyToken(p) \in Token /\ MyToken(p) # Free
  BY <1>t, MyTokenType
<1>u. CASE UNCHANGED vars
  BY <1>u DEF vars, Entries, Reached
<1>1. ASSUME NEW p \in Proc, Begin(p) PROVE Entries'
  BY <1>1, <1>t, <1>m DEF TypeOK, AsideHeld, Entries, Reached, Begin
<1>2. ASSUME NEW p \in Proc, Mkdir(p) PROVE Entries'
  BY <1>2, <1>t, <1>m DEF TypeOK, AsideHeld, Entries, Reached, Mkdir, Goto
<1>3. ASSUME NEW p \in Proc, Stat(p) PROVE Entries'
  BY <1>3, <1>t, <1>m DEF TypeOK, AsideHeld, Entries, Reached, Stat, Goto
<1>4. ASSUME NEW p \in Proc, Enter(p) PROVE Entries'
  BY <1>4, <1>t, <1>m DEF TypeOK, AsideHeld, Entries, Reached, Enter
<1>5. ASSUME NEW p \in Proc, Publish(p) PROVE Entries'
  BY <1>5, <1>t, <1>m DEF TypeOK, AsideHeld, Entries, Reached, Publish
<1>6. ASSUME NEW p \in Proc, Acquired(p) PROVE Entries'
  BY <1>6, <1>t, <1>m DEF TypeOK, AsideHeld, Entries, Reached, Acquired, Goto
<1>7. ASSUME NEW p \in Proc, CleanupCheck(p) PROVE Entries'
  BY <1>7, <1>t, <1>m DEF TypeOK, AsideHeld, Entries, Reached, CleanupCheck, Goto
<1>8. ASSUME NEW p \in Proc, CleanupRemove(p) PROVE Entries'
  BY <1>8, <1>t, <1>m DEF TypeOK, AsideHeld, Entries, Reached, CleanupRemove, Goto
<1>9. ASSUME NEW p \in Proc, Inspect(p) PROVE Entries'
  BY <1>9, <1>t, <1>m DEF TypeOK, AsideHeld, Entries, Reached, Inspect
<1>10. ASSUME NEW p \in Proc, ReadEvidence(p) PROVE Entries'
  BY <1>10, <1>t, <1>m DEF TypeOK, AsideHeld, Entries, Reached, ReadEvidence
<1>11. ASSUME NEW p \in Proc, ReclaimRename(p) PROVE Entries'
  BY <1>11, <1>t, <1>m DEF TypeOK, AsideHeld, Entries, Reached, ReclaimRename, MoveAside, Goto
<1>12. ASSUME NEW p \in Proc, ReclaimJudge(p) PROVE Entries'
  BY <1>12, <1>t, <1>m DEF TypeOK, AsideHeld, Entries, Reached, ReclaimJudge, RemoveAside,
     PutBack, Goto
<1>13. ASSUME NEW p \in Proc, RenewRead(p) PROVE Entries'
  BY <1>13, <1>t, <1>m DEF TypeOK, AsideHeld, Entries, Reached, RenewRead
<1>14. ASSUME NEW p \in Proc, RenewWrite(p) PROVE Entries'
  BY <1>14, <1>t, <1>m DEF TypeOK, AsideHeld, Entries, Reached, RenewWrite, Pinned
<1>15. ASSUME NEW p \in Proc, ReleaseRead(p) PROVE Entries'
  BY <1>15, <1>t, <1>m DEF TypeOK, AsideHeld, Entries, Reached, ReleaseRead
<1>16. ASSUME NEW p \in Proc, ReleaseStat(p) PROVE Entries'
  BY <1>16, <1>t, <1>m DEF TypeOK, AsideHeld, Entries, Reached, ReleaseStat
<1>17. ASSUME NEW p \in Proc, ReleaseRename(p) PROVE Entries'
  BY <1>17, <1>t, <1>m DEF TypeOK, AsideHeld, Entries, Reached, ReleaseRename, MoveAside, Goto
<1>18. ASSUME NEW p \in Proc, ReleaseJudge(p) PROVE Entries'
  BY <1>18, <1>t, <1>m DEF TypeOK, AsideHeld, Entries, Reached, ReleaseJudge, RemoveAside,
     PutBack, Goto
<1>19. ASSUME NEW p \in Proc, Expire(p) PROVE Entries'
  BY <1>19, <1>t, <1>m DEF TypeOK, AsideHeld, Entries, Reached, Expire
<1>20. ASSUME NEW p \in Proc, HelperDies(p) PROVE Entries'
  BY <1>20, <1>t, <1>m DEF TypeOK, AsideHeld, Entries, Reached, HelperDies, Abandon
<1>21. ASSUME NEW p \in Proc, Crash(p) PROVE Entries'
  BY <1>21, <1>t, <1>m DEF TypeOK, AsideHeld, Entries, Reached, Crash, Abandon
<1> QED
  BY <1>u, <1>1, <1>2, <1>3, <1>4, <1>5, <1>6, <1>7, <1>8, <1>9, <1>10, <1>11, <1>12, <1>13,
     <1>14, <1>15, <1>16, <1>17, <1>18, <1>19, <1>20, <1>21 DEF Next, Acquire, Reclaim, Renew,
     Release

LEMMA TidyStep ==
    ASSUME IInv, Entries, Tidy, [Next]_vars
    PROVE  Tidy'
<1> SUFFICES ASSUME crashes' = 0, faults' = 0
             PROVE  residue'["release"] = {} /\ (name' # NoIno => \E q \in Proc : HoldsName(q)')
  BY DEF Tidy
<1> USE MarkersAssumption
<1>t. TypeOK /\ AsideHeld /\ TypeOK'
  BY TypeStep DEF IInv, TypeInv
<1>c. crashes = 0 /\ Core
  BY CrashesGrow DEF IInv
<1>m. \A p \in Proc : MyToken(p) \in Token /\ MyToken(p) # Empty
  BY <1>t, MyTokenType, TokenMarkers DEF TypeOK, MyToken
<1>f. faults = 0
  <2>1. ASSUME NEW p \in Proc, Publish(p) \/ HelperDies(p) PROVE faults' # 0 \/ faults' = faults
    BY <2>1, <1>t DEF Publish, HelperDies, TypeOK
  <2>2. ASSUME NEW p \in Proc, Begin(p) \/ (Acquire(p) /\ ~Publish(p)) \/ Reclaim(p) \/ Renew(p) \/ Release(p)
                                \/ Expire(p) \/ Crash(p)
        PROVE  faults' = faults
    BY <2>2 DEF Acquire, Reclaim, Renew, Release, Begin, Mkdir, Stat, Enter, Acquired,
       CleanupCheck, CleanupRemove, Inspect, ReadEvidence, ReclaimRename, ReclaimJudge, RenewRead,
       RenewWrite, ReleaseRead, ReleaseStat, ReleaseRename, ReleaseJudge, Expire, Crash
  <2> QED
    BY <2>1, <2>2 DEF Next, vars, Acquire
<1>s. residue["release"] = {} /\ residue["stale"] = {} /\ (name # NoIno => \E q \in Proc : HoldsName(q))
  BY <1>c, <1>f DEF Tidy, Core, NoReclaim
<1>g. \A p \in Proc : alive[p] /\ pc[p] \notin {"reclaim", "judge"}
  BY <1>c DEF Core, NoReclaim
<1> DEFINE Goal == residue'["release"] = {} /\ (name' # NoIno => \E q \in Proc : HoldsName(q)')
<1>u. CASE UNCHANGED vars
  BY <1>u, <1>s DEF vars, HoldsName
<1>1. ASSUME NEW p \in Proc, Begin(p) PROVE Goal
  BY <1>1, <1>t, <1>c, <1>g, <1>m, <1>s DEF TypeOK, Core, HeldByOne, HeldName, AsideOwn,
     HoldsName, HolderPc, OwnerAtName, Begin
<1>2. ASSUME NEW p \in Proc, Mkdir(p) PROVE Goal
  BY <1>2, <1>t, <1>c, <1>g, <1>m, <1>s DEF TypeOK, Core, HeldByOne, HeldName, AsideOwn,
     HoldsName, HolderPc, OwnerAtName, Mkdir, Goto
<1>3. ASSUME NEW p \in Proc, Stat(p) PROVE Goal
  BY <1>3, <1>t, <1>c, <1>g, <1>m, <1>s DEF TypeOK, Core, HeldByOne, HeldName, AsideOwn,
     HoldsName, HolderPc, OwnerAtName, Stat, Goto
<1>4. ASSUME NEW p \in Proc, Enter(p) PROVE Goal
  BY <1>4, <1>t, <1>c, <1>g, <1>m, <1>s DEF TypeOK, Core, HeldByOne, HeldName, AsideOwn,
     HoldsName, HolderPc, OwnerAtName, Enter
<1>5. ASSUME NEW p \in Proc, Publish(p) PROVE Goal
  BY <1>5, <1>t, <1>c, <1>g, <1>m, <1>s DEF TypeOK, Core, HeldByOne, HeldName, AsideOwn,
     HoldsName, HolderPc, OwnerAtName, Publish
<1>6. ASSUME NEW p \in Proc, Acquired(p) PROVE Goal
  BY <1>6, <1>t, <1>c, <1>g, <1>m, <1>s DEF TypeOK, Core, HeldByOne, HeldName, AsideOwn,
     HoldsName, HolderPc, OwnerAtName, Acquired, Goto
<1>7. ASSUME NEW p \in Proc, CleanupCheck(p) PROVE Goal
  BY <1>7, <1>t, <1>c, <1>g, <1>m, <1>s DEF TypeOK, Core, HeldByOne, HeldName, AsideOwn,
     HoldsName, HolderPc, OwnerAtName, CleanupCheck, Goto
<1>8. ASSUME NEW p \in Proc, CleanupRemove(p) PROVE Goal
  BY <1>8, <1>t, <1>c, <1>g, <1>m, <1>s DEF TypeOK, Core, HeldByOne, HeldName, AsideOwn,
     HoldsName, HolderPc, OwnerAtName, CleanupRemove, Goto
<1>9. ASSUME NEW p \in Proc, Inspect(p) PROVE Goal
  BY <1>9, <1>t, <1>c, <1>g, <1>m, <1>s DEF TypeOK, Core, HeldByOne, HeldName, AsideOwn,
     HoldsName, HolderPc, OwnerAtName, Inspect
<1>10. ASSUME NEW p \in Proc, ReadEvidence(p) PROVE Goal
  BY <1>10, <1>t, <1>c, <1>g, <1>m, <1>s DEF TypeOK, Core, HeldByOne, HeldName, AsideOwn,
     HoldsName, HolderPc, OwnerAtName, ReadEvidence
<1>11. ASSUME NEW p \in Proc, RenewRead(p) PROVE Goal
  BY <1>11, <1>t, <1>c, <1>g, <1>m, <1>s DEF TypeOK, Core, HeldByOne, HeldName, AsideOwn,
     HoldsName, HolderPc, OwnerAtName, RenewRead
<1>12. ASSUME NEW p \in Proc, RenewWrite(p) PROVE Goal
  BY <1>12, <1>t, <1>c, <1>g, <1>m, <1>s DEF TypeOK, Core, HeldByOne, HeldName, AsideOwn,
     HoldsName, HolderPc, OwnerAtName, RenewWrite, Pinned
<1>13. ASSUME NEW p \in Proc, ReleaseRead(p) PROVE Goal
  BY <1>13, <1>t, <1>c, <1>g, <1>m, <1>s DEF TypeOK, Core, HeldByOne, HeldName, AsideOwn,
     HoldsName, HolderPc, OwnerAtName, ReleaseRead
<1>14. ASSUME NEW p \in Proc, ReleaseStat(p) PROVE Goal
  BY <1>14, <1>t, <1>c, <1>g, <1>m, <1>s DEF TypeOK, Core, HeldByOne, HeldName, AsideOwn,
     HoldsName, HolderPc, OwnerAtName, ReleaseStat
<1>15. ASSUME NEW p \in Proc, ReleaseRename(p) PROVE Goal
  BY <1>15, <1>t, <1>c, <1>g, <1>m, <1>s DEF TypeOK, Core, HeldByOne, HeldName, AsideOwn,
     HoldsName, HolderPc, OwnerAtName, ReleaseRename, MoveAside, Goto
<1>16. ASSUME NEW p \in Proc, ReleaseJudge(p) PROVE Goal
  BY <1>16, <1>t, <1>c, <1>g, <1>m, <1>s DEF TypeOK, Core, HeldByOne, HeldName, AsideOwn,
     HoldsName, HolderPc, OwnerAtName, ReleaseJudge, RemoveAside, PutBack, Goto
<1>17. ASSUME NEW p \in Proc, Expire(p) PROVE Goal
  BY <1>17, <1>t, <1>c, <1>g, <1>m, <1>s DEF TypeOK, Core, HeldByOne, HeldName, AsideOwn,
     HoldsName, HolderPc, OwnerAtName, Expire
<1>x. ASSUME NEW p \in Proc, ReclaimRename(p) \/ ReclaimJudge(p) \/ HelperDies(p) \/ Crash(p) PROVE FALSE
  BY <1>x, <1>g, <1>t, <1>c, <1>f DEF TypeOK, ReclaimRename, ReclaimJudge, HelperDies, Crash
<1> QED
  BY <1>u, <1>x, <1>1, <1>2, <1>3, <1>4, <1>5, <1>6, <1>7, <1>8, <1>9, <1>10, <1>11, <1>12, <1>13,
     <1>14, <1>15, <1>16, <1>17 DEF Next, Acquire, Reclaim, Renew, Release

LEMMA EntryInvariance == Spec => [](Entries /\ Tidy)
<1>1. Init => Entries /\ Tidy
  BY MarkersAssumption DEF Init, Entries, Reached, Tidy
<1>2. IInv /\ Entries /\ Tidy /\ [Next]_vars => (Entries /\ Tidy)'
  BY EntriesStep, TidyStep DEF IInv
<1> QED
  BY <1>1, <1>2, Invariance, PTL DEF Spec

\* A set of processes with the same directory aside has one element or none.
LEMMA AsideCount ==
    ASSUME Entries, NEW i \in Ino
    PROVE  Cardinality({p \in Proc : aside[p] = i}) = IF \E p \in Proc : aside[p] = i THEN 1 ELSE 0
<1>1. CASE \E p \in Proc : aside[p] = i
  <2>1. PICK p \in Proc : aside[p] = i
    BY <1>1
  <2>2. {q \in Proc : aside[q] = i} = {p}
    BY <2>1, MarkersAssumption DEF Entries
  <2> QED
    BY <1>1, <2>2, FS_Singleton
<1>2. CASE ~ \E p \in Proc : aside[p] = i
  <2>1. {q \in Proc : aside[q] = i} = {}
    BY <1>2
  <2> QED
    BY <1>2, <2>1, FS_EmptySet
<1> QED
  BY <1>1, <1>2

\* The same of the two kinds of leftovers.
LEMMA ResidueCount ==
    ASSUME TypeOK, Entries, NEW i \in Ino
    PROVE  Cardinality({k \in DOMAIN residue : i \in residue[k]})
             = IF i \in residue["stale"] \/ i \in residue["release"] THEN 1 ELSE 0
<1>d. DOMAIN residue = {"stale", "release"}
  BY DEF TypeOK
<1> DEFINE K == {k \in DOMAIN residue : i \in residue[k]}
<1>1. CASE i \in residue["stale"]
  <2>1. K = {"stale"}
    BY <1>1, <1>d DEF Entries
  <2> QED
    BY <1>1, <2>1, FS_Singleton
<1>2. CASE i \in residue["release"]
  <2>1. K = {"release"}
    BY <1>2, <1>d DEF Entries
  <2> QED
    BY <1>2, <2>1, FS_Singleton
<1>3. CASE i \notin residue["stale"] /\ i \notin residue["release"]
  <2>1. K = {}
    BY <1>3, <1>d
  <2> QED
    BY <1>3, <2>1, FS_EmptySet
<1> QED
  BY <1>1, <1>2, <1>3

\* Whatever renames, removals, kills and orphaned helpers interleave, a lock
\* directory in use is reached by exactly one name, and one that is not by none;
\* without failures nothing is left once nobody is in a call.
THEOREM OneEntryAlways == Spec => []OneEntry
<1>1. IInv /\ Entries /\ Tidy => OneEntry
  <2> SUFFICES ASSUME IInv, Entries, Tidy PROVE OneEntry
    OBVIOUS
  <2>t. TypeOK
    BY DEF IInv, TypeInv
  <2>1. ASSUME NEW i \in Ino PROVE EntryCount(i) = IF owner[i] = Free THEN 0 ELSE 1
    <3> DEFINE a == \E p \in Proc : aside[p] = i
               r == i \in residue["stale"] \/ i \in residue["release"]
               n == name = i
    <3>1. EntryCount(i) = (IF n THEN 1 ELSE 0) + (IF a THEN 1 ELSE 0) + (IF r THEN 1 ELSE 0)
      BY <2>t, AsideCount, ResidueCount DEF EntryCount
    <3>2. owner[i] # Free <=> n \/ a \/ r
      BY DEF Entries, Reached
    <3>3. ~(n /\ a) /\ ~(n /\ r) /\ ~(a /\ r)
      BY MarkersAssumption DEF Entries
    <3> HIDE DEF n, a, r
    <3> QED
      BY <3>1, <3>2, <3>3
  <2>2. ASSUME crashes = 0, faults = 0, \A p \in Proc : pc[p] = "idle"
        PROVE  name = NoIno /\ \A k \in DOMAIN residue : residue[k] = {}
    <3>1. residue["stale"] = {} /\ residue["release"] = {}
      BY <2>2 DEF IInv, Core, NoReclaim, Tidy
    <3>2. name = NoIno
      BY <2>2 DEF Tidy, HoldsName, HolderPc
    <3> QED
      BY <2>t, <3>1, <3>2 DEF TypeOK
  <2> QED
    BY <2>1, <2>2 DEF OneEntry
<1> QED
  BY <1>1, Invariance, EntryInvariance, PTL

-----------------------------------------------------------------------------
CONSTANTS
    None,
    Actor, Task, Handoff, MaxPlanCalls,                         \* CloudPlan
    Caller, Payload, MaxCheckpoints, MaxKill,                   \* Checkpoints
    Lines, LineLimit, MaxLine, MaxTail, MaxSource, MaxChanges,  \* Recovery
    Process, MaxOwnerEdits, MaxManagerCalls,                    \* OwnerRecord, Automations
    Worker, Id, MaxRuns, MaxUlwFaults,                          \* Ulw
    Writer, Dir, MaxSwap,                                       \* AtomicFile
    Launcher, Foreign, MaxMcpCalls, MaxEdits, MaxMoves,         \* McpConfig
    MaxFault

VARIABLES
    plan, actor, aborted, cloud, sent, ingested, shown, calls, overlap,
    immutable, current, checkpointLock, caller, fresh, checkpoints, kills,
    transcript, former, contents, ring, reader, copy, snapshot, answers, changes,
    recoveryFaults,
    guard, process, authority, created, ownerEdits, ownerFaults,
    worktree, ulw, step, receipts, ids, ulwFaults,
    automation, exports, manager, mixed, half, managerCalls, managerFaults,
    path, file, temp, writer, outcome, visible, clobbered, writeFaults, swaps,
    config, receipt, launcher, mcpLock, mcp, chosen, calm, mcpCalls, edits, moves, mcpFaults

Cp == INSTANCE CloudPlan WITH MaxCalls <- MaxPlanCalls
Ck == INSTANCE Checkpoints WITH MaxCalls <- MaxCheckpoints
Rc == INSTANCE Recovery
Ow == INSTANCE OwnerRecord WITH MaxEdits <- MaxOwnerEdits
Ul == INSTANCE Ulw WITH MaxFault <- MaxUlwFaults
Au == INSTANCE Automations WITH MaxCalls <- MaxManagerCalls
Af == INSTANCE AtomicFile
Mc == INSTANCE McpConfig WITH MaxCalls <- MaxMcpCalls

-----------------------------------------------------------------------------
(* CloudPlan.  As long as calls do not overlap one call at most has a copy *)
(* of the plan, and what it has not seen was only added to: the handoffs   *)
(* of its copy are among those of the plan.  A verdict compares their      *)
(* numbers, and of finite sets one within the other the numbers are equal  *)
(* only when the sets are.                                                 *)

\* A call that began has a copy, and every set of handoffs is finite.
CopiesFit ==
    /\ IsFiniteSet(plan.late)
    /\ \A x \in Cp!Busy: actor[x].plan \in Cp!Plans /\ IsFiniteSet(actor[x].plan.late)

\* Without overlap the one copy there is misses handoffs, at most.
Apart ==
    ~ overlap =>
        /\ \A x, y \in Cp!Busy: x = y
        /\ \A x \in Cp!Busy: actor[x].plan.late \subseteq plan.late

CloudInv == Cp!TypeOK /\ CopiesFit /\ Apart /\ Cp!CompletedWasVerified

-----------------------------------------------------------------------------
(* Records and functions written at a field.                               *)

LEMMA Again ==
    ASSUME NEW A, NEW x \in A, NEW C, NEW f \in [A -> C], NEW k, NEW m
    PROVE  [[f EXCEPT ![x] = k] EXCEPT ![x] = m] = [f EXCEPT ![x] = m]
  OBVIOUS

-----------------------------------------------------------------------------
LEMMA CloudInitially ==
    ASSUME Cp!Init
    PROVE  CloudInv
  <1>1. plan \in Cp!Plans
    BY DEF Cp!Init, Cp!Plans, Cp!PlanStatus, Cp!TaskStatus
  <1>2. Cp!Rest \in Cp!Call
    BY DEF Cp!Rest, Cp!Call
  <1>3. Cp!TypeOK
    BY <1>1, <1>2 DEF Cp!Init, Cp!TypeOK
  <1>4. Cp!Busy = {}
    BY DEF Cp!Init, Cp!Busy, Cp!Rest
  <1>5. IsFiniteSet(plan.late)
    BY FS_EmptySet DEF Cp!Init
  <1>6. plan.status # "completed"
    BY DEF Cp!Init
  <1> QED  BY <1>3, <1>4, <1>5, <1>6 DEF CloudInv, CopiesFit, Apart, Cp!CompletedWasVerified

\* What a step of a call may do: it changes its own copy, and the plan only when no other call
\* has a copy of it or calls overlap.
LEMMA CloudCallKeeps ==
    ASSUME CloudInv, NEW x \in Actor, NEW r \in Cp!Call, actor' = [actor EXCEPT ![x] = r],
           plan' \in Cp!Plans, IsFiniteSet(plan'.late),
           r.pc # "idle" => r.plan \in Cp!Plans /\ IsFiniteSet(r.plan.late),
           ~ overlap' => /\ ~ overlap /\ Cp!Busy \subseteq {x}
                         /\ r.pc # "idle" => r.plan.late \subseteq plan'.late
                         /\ plan'.status = "completed" => plan'.late \subseteq shown'
    PROVE  CloudInv'
  <1>1. actor' \in [Actor -> Cp!Call] /\ actor'[x] = r /\ \A y \in Actor: y # x => actor'[y] = actor[y]
    BY DEF CloudInv, Cp!TypeOK
  <1>2. Cp!TypeOK'
    BY <1>1 DEF Cp!TypeOK
  <1>3. \A y \in Cp!Busy': y = x \/ (y \in Cp!Busy /\ actor'[y] = actor[y])
    BY <1>1 DEF Cp!Busy
  <1>4. x \in Cp!Busy' => r.pc # "idle"
    BY <1>1 DEF Cp!Busy
  <1>5. CopiesFit'
    BY <1>1, <1>3, <1>4 DEF CloudInv, CopiesFit
  <1>6. ASSUME ~ overlap'
        PROVE  \A y \in Cp!Busy': y = x
    BY <1>3, <1>6
  <1>7. Apart'
    BY <1>1, <1>4, <1>6 DEF Apart
  <1>8. Cp!CompletedWasVerified'
    BY DEF Cp!CompletedWasVerified
  <1> QED  BY <1>2, <1>5, <1>7, <1>8 DEF CloudInv

LEMMA ExecuteKeeps ==
    ASSUME CloudInv, NEW x \in Actor, Cp!Execute(x)
    PROVE  CloudInv'
  <1> DEFINE mine == [plan EXCEPT !.status = "executing"]
             r == [pc |-> "work", plan |-> mine,
                   work |-> [t \in Task |-> IF Cp!Done(mine.task[t]) THEN "end" ELSE "start"]]
  <1>1. plan \in Cp!Plans
    BY DEF CloudInv, Cp!TypeOK
  <1>2. mine \in Cp!Plans /\ mine.late = plan.late /\ mine.status = "executing"
    BY <1>1 DEF Cp!Plans, Cp!PlanStatus
  <1> HIDE DEF mine
  <1>3. r \in Cp!Call /\ r.pc = "work" /\ r.plan = mine
    BY <1>2 DEF Cp!Call
  <1>4. actor' = [actor EXCEPT ![x] = r] /\ plan' = mine /\ overlap' = (overlap \/ Cp!Busy # {})
    BY DEF Cp!Execute, mine
  <1> HIDE DEF r
  <1> QED  BY <1>2, <1>3, <1>4, CloudCallKeeps DEF CloudInv, CopiesFit

\* A step of a worker changes the tasks and runs of the copy, nothing else that counts.
LEMMA WorkerKeeps ==
    ASSUME CloudInv, NEW x \in Actor, NEW t \in Task, NEW w \in {"wait", "end"},
    actor[x].pc = "work",
           NEW c \in Cp!Plans, c.late = actor[x].plan.late, UNCHANGED <<plan, shown, overlap>>,
           actor' = [actor EXCEPT ![x] = [pc |-> "work", plan |-> c, work |-> [actor[x].work EXCEPT ![t] = w]]]
    PROVE  CloudInv'
  <1> DEFINE r == [pc |-> "work", plan |-> c, work |-> [actor[x].work EXCEPT ![t] = w]]
  <1>1. x \in Cp!Busy /\ IsFiniteSet(c.late)
    BY DEF CloudInv, CopiesFit, Cp!Busy
  <1>2. actor' = [actor EXCEPT ![x] = r]
    OBVIOUS
  <1>3. actor[x].work \in [Task -> {"rest", "start", "wait", "end"}]
    BY DEF CloudInv, Cp!TypeOK, Cp!Call
  <1>4. r \in Cp!Call /\ r.pc = "work" /\ r.plan = c
    BY <1>3 DEF Cp!Call
  <1> HIDE DEF r
  <1>5. ~ overlap => Cp!Busy \subseteq {x} /\ c.late \subseteq plan.late
    BY <1>1 DEF CloudInv, Apart
  <1> QED  BY <1>1, <1>2, <1>4, <1>5, CloudCallKeeps DEF CloudInv, Cp!TypeOK, CopiesFit,
                                                         Cp!CompletedWasVerified

LEMMA EndsKeeps ==
    ASSUME CloudInv, NEW x \in Actor, NEW t \in Task, NEW s \in Cp!TaskStatus, actor[x].pc = "work",
           UNCHANGED <<plan, shown, overlap>>, Cp!Ends(x, t, s)
    PROVE  CloudInv'
  <1> DEFINE p == actor[x].plan
             m == actor[x].work
             c == [p EXCEPT !.task = [p.task EXCEPT ![t] = s]]
             k == [pc |-> "work", plan |-> c, work |-> m]
             f == [actor EXCEPT ![x].plan.task[t] = s]
  <1>1. actor \in [Actor -> Cp!Call] /\ p \in Cp!Plans /\ actor[x] \in Cp!Call
    BY DEF CloudInv, Cp!TypeOK, CopiesFit, Cp!Busy
  <1>2. c \in Cp!Plans /\ c.late = p.late
    BY <1>1 DEF Cp!Plans
  <1>3. actor[x] = [pc |-> "work", plan |-> p, work |-> m]
    BY <1>1 DEF Cp!Call
  <1>4. f = [actor EXCEPT ![x] = k]
    <2>1. [actor[x] EXCEPT !.plan.task[t] = s] = [actor[x] EXCEPT !.plan = c]
      OBVIOUS
    <2>2. f = [actor EXCEPT ![x] = [actor[x] EXCEPT !.plan.task[t] = s]]
      BY <1>1
    <2> HIDE DEF c, f
    <2>3. [actor[x] EXCEPT !.plan = c] = k
      BY <1>3
    <2> QED  BY <2>1, <2>2, <2>3, Zenon
  <1>5. actor' = [f EXCEPT ![x].work[t] = "end"]
    BY DEF Cp!Ends
  <1> HIDE DEF f, c
  <1>6. f \in [Actor -> Cp!Call \cup {k}] /\ f[x] = k
    BY <1>1, <1>4
  <1>7. actor' = [f EXCEPT ![x] = [pc |-> "work", plan |-> c, work |-> [m EXCEPT ![t] = "end"]]]
    <2> DEFINE n == [m EXCEPT ![t] = "end"]
    <2>1. [f[x] EXCEPT !.work[t] = "end"] = [f[x] EXCEPT !.work = n]
      BY <1>6
    <2>2. actor' = [f EXCEPT ![x] = [f[x] EXCEPT !.work[t] = "end"]]
      BY <1>5, <1>6
    <2> HIDE DEF n
    <2>3. [f[x] EXCEPT !.work = n] = [pc |-> "work", plan |-> c, work |-> n]
      BY <1>6
    <2> QED  BY <2>1, <2>2, <2>3, Zenon DEF n
  <1>8. actor' = [actor EXCEPT ![x] = [pc |-> "work", plan |-> c, work |-> [m EXCEPT ![t] = "end"]]]
    BY <1>1, <1>4, <1>7, Again
  <1> QED  BY <1>2, <1>8, WorkerKeeps

LEMMA SendKeeps ==
    ASSUME CloudInv, NEW x \in Actor, NEW t \in Task, Cp!SendWorker(x, t)
    PROVE  CloudInv'
  <1> DEFINE p == actor[x].plan
             m == actor[x].work
             c == [p EXCEPT !.task = [p.task EXCEPT ![t] = "running"]]
             k == [pc |-> "work", plan |-> c, work |-> m]
             f == [actor EXCEPT ![x].plan.task[t] = "running"]
             d == [c EXCEPT !.run = c.run \cup {t}]
             j == [pc |-> "work", plan |-> d, work |-> m]
             g == [f EXCEPT ![x].plan.run = @ \cup {t}]
  <1>1. actor \in [Actor -> Cp!Call] /\ p \in Cp!Plans /\ actor[x] \in Cp!Call /\ actor[x].pc = "work"
    BY DEF CloudInv, Cp!TypeOK, CopiesFit, Cp!Busy, Cp!SendWorker
  <1>2. c \in Cp!Plans /\ c.late = p.late
    BY <1>1 DEF Cp!Plans, Cp!TaskStatus
  <1>3. actor[x] = [pc |-> "work", plan |-> p, work |-> m]
    BY <1>1 DEF Cp!Call
  <1>4. f = [actor EXCEPT ![x] = k]
    <2>1. [actor[x] EXCEPT !.plan.task[t] = "running"] = [actor[x] EXCEPT !.plan = c]
      OBVIOUS
    <2>2. f = [actor EXCEPT ![x] = [actor[x] EXCEPT !.plan.task[t] = "running"]]
      BY <1>1
    <2> HIDE DEF c, f
    <2>3. [actor[x] EXCEPT !.plan = c] = k
      BY <1>3
    <2> QED  BY <2>1, <2>2, <2>3, Zenon
  <1>5. actor' = [g EXCEPT ![x].work[t] = "wait"] /\ UNCHANGED <<plan, shown, overlap>>
    BY DEF Cp!SendWorker
  <1> HIDE DEF c, f
  <1>6. f \in [Actor -> Cp!Call \cup {k}] /\ f[x] = k
    BY <1>1, <1>4
  <1>7. g = [f EXCEPT ![x] = j]
    <2>1. [f[x] EXCEPT !.plan.run = @ \cup {t}] = [f[x] EXCEPT !.plan = d]
      BY <1>6
    <2>2. g = [f EXCEPT ![x] = [f[x] EXCEPT !.plan.run = @ \cup {t}]]
      BY <1>6
    <2> HIDE DEF d, g
    <2>3. [f[x] EXCEPT !.plan = d] = j
      BY <1>6
    <2> QED  BY <2>1, <2>2, <2>3, Zenon
  <1>8. d \in Cp!Plans /\ d.late = p.late
    BY <1>2 DEF Cp!Plans
  <1> HIDE DEF d, g
  <1>9. g = [actor EXCEPT ![x] = j]
    BY <1>1, <1>4, <1>7, Again
  <1>10. g \in [Actor -> Cp!Call \cup {j}] /\ g[x] = j
    BY <1>1, <1>9
  <1>11. actor' = [g EXCEPT ![x] = [pc |-> "work", plan |-> d, work |-> [m EXCEPT ![t] = "wait"]]]
    <2> DEFINE n == [m EXCEPT ![t] = "wait"]
    <2>1. [g[x] EXCEPT !.work[t] = "wait"] = [g[x] EXCEPT !.work = n]
      BY <1>10
    <2>2. actor' = [g EXCEPT ![x] = [g[x] EXCEPT !.work[t] = "wait"]]
      BY <1>5, <1>10
    <2> HIDE DEF n
    <2>3. [g[x] EXCEPT !.work = n] = [pc |-> "work", plan |-> d, work |-> n]
      BY <1>10
    <2> QED  BY <2>1, <2>2, <2>3, Zenon DEF n
  <1>12. actor' = [actor EXCEPT ![x] = [pc |-> "work", plan |-> d, work |-> [m EXCEPT ![t] = "wait"]]]
    BY <1>1, <1>9, <1>11, Again
  <1> QED  BY <1>1, <1>5, <1>8, <1>12, WorkerKeeps

\* A call that writes the plan and goes on, or is done.
LEMMA WriteKeeps ==
    ASSUME CloudInv, NEW x \in Cp!Busy, NEW p \in Cp!Plans, NEW next \in {"idle", "verify"},
    Cp!Write(x, p, next),
           UNCHANGED overlap, IsFiniteSet(p.late),
           ~ overlap /\ p.status = "completed" => p.late \subseteq shown'
    PROVE  CloudInv'
  <1>1. x \in Actor /\ actor[x] \in Cp!Call
    BY DEF CloudInv, Cp!TypeOK, Cp!Busy
  <1> DEFINE r == IF next = "idle" THEN Cp!Rest
                  ELSE [pc |-> "verify", plan |-> p, work |-> actor[x].work]
  <1>2. [actor[x] EXCEPT !.pc = "verify", !.plan = p] = [pc |-> "verify", plan |-> p, work |-> actor[x].work]
    <2> DEFINE c == [actor[x] EXCEPT !.pc = "verify"]
    <2>1. c = [pc |-> "verify", plan |-> actor[x].plan, work |-> actor[x].work]
      BY <1>1 DEF Cp!Call
    <2>2. [actor[x] EXCEPT !.pc = "verify", !.plan = p] = [c EXCEPT !.plan = p]
      OBVIOUS
    <2> HIDE DEF c
    <2> QED  BY <2>1, <2>2
  <1>3. actor' = [actor EXCEPT ![x] = r] /\ plan' = p
    BY <1>2 DEF Cp!Write
  <1>4. r \in Cp!Call /\ (r.pc # "idle" => r.plan = p)
    BY <1>1 DEF Cp!Call, Cp!Rest
  <1> HIDE DEF r
  <1>5. ~ overlap => Cp!Busy \subseteq {x}
    BY DEF CloudInv, Apart
  <1> QED  BY <1>1, <1>3, <1>4, <1>5, CloudCallKeeps

LEMMA StatusKeeps ==
    ASSUME CloudInv, NEW x \in Cp!Busy, NEW s \in Cp!PlanStatus \ {"completed"},
    NEW next \in {"idle", "verify"},
           Cp!Write(x, [actor[x].plan EXCEPT !.status = s], next), UNCHANGED overlap
    PROVE  CloudInv'
  <1> DEFINE p == [actor[x].plan EXCEPT !.status = s]
  <1>1. actor[x].plan \in Cp!Plans /\ IsFiniteSet(actor[x].plan.late)
    BY DEF CloudInv, CopiesFit
  <1>2. p \in Cp!Plans /\ p.late = actor[x].plan.late /\ p.status = s
    BY <1>1 DEF Cp!Plans
  <1>3. Cp!Write(x, p, next)
    OBVIOUS
  <1> HIDE DEF p
  <1> QED  BY <1>1, <1>2, <1>3, WriteKeeps

\* The verdict: when the numbers are the same, so are the handoffs.
LEMMA VerdictKeeps ==
    ASSUME CloudInv, NEW x \in Actor, NEW passed \in BOOLEAN, Cp!Verdict(x, passed)
    PROVE  CloudInv'
  <1> DEFINE old == actor[x].plan
             late == Cp!LateWhileVerifying(old.late, plan.late)
             p == [status |-> IF late THEN "replanning" ELSE IF passed THEN "completed" ELSE "failed",
                   task |-> [t \in Task |-> IF passed THEN "verified" ELSE "failed"],
                   run |-> old.run, late |-> plan.late]
  <1>1. x \in Cp!Busy /\ old \in Cp!Plans /\ IsFiniteSet(old.late)
    BY DEF Cp!Verdict, Cp!Busy, CloudInv, CopiesFit
  <1>2. plan \in Cp!Plans /\ IsFiniteSet(plan.late)
    BY DEF CloudInv, Cp!TypeOK, CopiesFit
  <1>3. p \in Cp!Plans /\ p.late = plan.late
    BY <1>1, <1>2 DEF Cp!Plans, Cp!PlanStatus, Cp!TaskStatus
  <1>4. Cp!Write(x, p, "idle") /\ UNCHANGED overlap
    BY DEF Cp!Verdict
  <1>5. ASSUME ~ overlap, p.status = "completed"
        PROVE  plan.late \subseteq shown'
    <2>1. passed /\ ~ late
      BY <1>5
    <2>2. shown' = old.late
      BY <2>1 DEF Cp!Verdict
    <2>3. old.late \subseteq plan.late
      BY <1>1, <1>5 DEF CloudInv, Apart
    <2>4. ~ (Cardinality(plan.late) > Cardinality(old.late))
      BY <2>1 DEF Cp!LateWhileVerifying, Cp!Cardinality, Cardinality
    <2>5. Cardinality(old.late) \in Nat /\ Cardinality(plan.late) \in Nat
      BY <1>1, <1>2, FS_CardinalityType
    <2>6. /\ Cardinality(old.late) <= Cardinality(plan.late)
          /\ Cardinality(old.late) = Cardinality(plan.late) => old.late = plan.late
      BY <1>2, <2>3, FS_Subset
    <2>7. old.late = plan.late
      BY <2>4, <2>5, <2>6
    <2> QED  BY <2>2, <2>7
  <1> HIDE DEF p
  <1> QED  BY <1>1, <1>2, <1>3, <1>4, <1>5, WriteKeeps

LEMMA IngestKeeps ==
    ASSUME CloudInv, NEW h \in Handoff, NEW t \in Task \cup {None}, Cp!IngestLateHandoff(h, t)
    PROVE  CloudInv'
  <1>1. plan \in Cp!Plans /\ UNCHANGED <<actor, shown, overlap>>
    BY DEF Cp!IngestLateHandoff, CloudInv, Cp!TypeOK
  <1>2. plan' = [status |-> "replanning",
                 task |-> [u \in Task |-> IF u = t /\ ~ Cp!Done(plan.task[u]) THEN "completed" ELSE plan.task[u]],
                 run |-> plan.run, late |-> plan.late \cup {h}]
    BY <1>1 DEF Cp!IngestLateHandoff, Cp!Plans
  <1>3. plan' \in Cp!Plans /\ plan'.late = plan.late \cup {h} /\ plan'.status = "replanning"
    BY <1>1, <1>2 DEF Cp!Plans, Cp!PlanStatus, Cp!TaskStatus
  <1>4. IsFiniteSet(plan'.late)
    BY <1>3, FS_AddElement DEF CloudInv, CopiesFit
  <1>5. Cp!Busy' = Cp!Busy
    BY <1>1 DEF Cp!Busy
  <1>6. Cp!TypeOK' /\ CopiesFit'
    BY <1>1, <1>3, <1>4, <1>5 DEF CloudInv, Cp!TypeOK, CopiesFit
  <1>7. Apart'
    BY <1>1, <1>3, <1>5 DEF CloudInv, Apart
  <1>8. Cp!CompletedWasVerified'
    BY <1>3 DEF Cp!CompletedWasVerified
  <1> QED  BY <1>6, <1>7, <1>8 DEF CloudInv

LEMMA CancelReadKeeps ==
    ASSUME CloudInv, NEW x \in Actor, Cp!CancelRead(x)
    PROVE  CloudInv'
  <1> DEFINE r == [pc |-> "cancel", plan |-> plan, work |-> [t \in Task |-> "rest"]]
  <1>1. actor' = [actor EXCEPT ![x] = r] /\ UNCHANGED <<plan, shown>>
        /\ overlap' = (overlap \/ Cp!Busy \ {x} # {})
    <2> DEFINE c == [Cp!Rest EXCEPT !.pc = "cancel"]
    <2>1. c = [pc |-> "cancel", plan |-> None, work |-> [t \in Task |-> "rest"]]
      BY DEF Cp!Rest
    <2>2. [Cp!Rest EXCEPT !.pc = "cancel", !.plan = plan] = [c EXCEPT !.plan = plan]
      OBVIOUS
    <2> HIDE DEF c
    <2>3. [Cp!Rest EXCEPT !.pc = "cancel", !.plan = plan] = r
      BY <2>1, <2>2
    <2> QED  BY <2>3 DEF Cp!CancelRead
  <1>2. plan \in Cp!Plans
    BY DEF CloudInv, Cp!TypeOK
  <1>3. r \in Cp!Call /\ r.plan = plan
    BY <1>2 DEF Cp!Call
  <1> HIDE DEF r
  <1>4. ~ overlap' => ~ overlap /\ Cp!Busy \subseteq {x}
    BY <1>1
  <1> QED  BY <1>1, <1>2, <1>3, <1>4, CloudCallKeeps DEF CloudInv, CopiesFit,
                                                         Cp!CompletedWasVerified

LEMMA CancelRunsKeeps ==
    ASSUME CloudInv, NEW x \in Actor, Cp!CancelRuns(x)
    PROVE  CloudInv'
  <1> DEFINE mine == actor[x].plan
             p == [mine EXCEPT !.status = "cancelled",
                    !.task = [t \in Task |-> IF t \in Cp!Cancellable(mine) THEN "cancelled" ELSE @[t]]]
  <1>1. x \in Cp!Busy /\ mine \in Cp!Plans /\ IsFiniteSet(mine.late)
    BY DEF Cp!CancelRuns, Cp!Busy, CloudInv, CopiesFit
  <1>2. p = [status |-> "cancelled", run |-> mine.run, late |-> mine.late,
             task |-> [t \in Task |-> IF t \in Cp!Cancellable(mine) THEN "cancelled" ELSE mine.task[t]]]
    <2> DEFINE d == [mine EXCEPT !.status = "cancelled"]
               u == [t \in Task |-> IF t \in Cp!Cancellable(mine) THEN "cancelled" ELSE mine.task[t]]
    <2>1. d = [status |-> "cancelled", task |-> mine.task, run |-> mine.run, late |-> mine.late]
      BY <1>1 DEF Cp!Plans
    <2>2. p = [d EXCEPT !.task = u]
      OBVIOUS
    <2> HIDE DEF d, u
    <2>3. p = [status |-> "cancelled", task |-> u, run |-> mine.run, late |-> mine.late]
      BY <2>1, <2>2
    <2> QED  BY <2>3 DEF u
  <1>3. p \in Cp!Plans /\ p.late = mine.late /\ p.status = "cancelled"
    BY <1>1, <1>2 DEF Cp!Plans, Cp!PlanStatus, Cp!TaskStatus
  <1>4. Cp!Write(x, p, "idle") /\ UNCHANGED overlap
    BY DEF Cp!CancelRuns
  <1> HIDE DEF p
  <1> QED  BY <1>1, <1>3, <1>4, WriteKeeps

LEMMA CloudKillKeeps ==
    ASSUME CloudInv, NEW x \in Actor, Cp!Kill(x)
    PROVE  CloudInv'
  <1>1. x \in Cp!Busy /\ actor' = [actor EXCEPT ![x] = Cp!Rest] /\ UNCHANGED <<plan, shown, overlap>>
    BY DEF Cp!Kill, Cp!Busy
  <1>2. Cp!Rest \in Cp!Call /\ Cp!Rest.pc = "idle"
    BY DEF Cp!Rest, Cp!Call
  <1>3. ~ overlap => Cp!Busy \subseteq {x}
    BY <1>1 DEF CloudInv, Apart
  <1> QED  BY <1>1, <1>2, <1>3, CloudCallKeeps DEF CloudInv, Cp!TypeOK, CopiesFit,
                                                   Cp!CompletedWasVerified

LEMMA StutterKeeps ==
    ASSUME CloudInv, UNCHANGED <<plan, actor, shown, overlap>>
    PROVE  CloudInv'
  BY DEF CloudInv, Cp!TypeOK, CopiesFit, Apart, Cp!CompletedWasVerified, Cp!Busy

LEMMA CloudStepKeeps ==
    ASSUME CloudInv, [Cp!Next]_Cp!vars
    PROVE  CloudInv'
  <1>1. CASE UNCHANGED Cp!vars
    BY <1>1, StutterKeeps DEF Cp!vars
  <1>2. ASSUME NEW h \in Handoff, NEW t \in Task \cup {None}, Cp!IngestLateHandoff(h, t)
        PROVE  CloudInv'
    BY <1>2, IngestKeeps
  <1>3. ASSUME NEW x \in Actor, NEW t \in Task,
               Cp!SkipWorker(x, t) \/ Cp!SendWorker(x, t) \/ Cp!WorkerReturns(x,
               t) \/ Cp!WorkerFails(x, t)
        PROVE  CloudInv'
    <2>1. "cancelled" \in Cp!TaskStatus /\ "completed" \in Cp!TaskStatus /\ "failed" \in Cp!TaskStatus
      BY DEF Cp!TaskStatus
    <2>2. CASE Cp!SkipWorker(x, t)
      BY <2>1, <2>2, EndsKeeps DEF Cp!SkipWorker
    <2>3. CASE Cp!SendWorker(x, t)
      BY <2>3, SendKeeps
    <2>4. CASE Cp!WorkerReturns(x, t)
      BY <2>1, <2>4, EndsKeeps DEF Cp!WorkerReturns
    <2>5. CASE Cp!WorkerFails(x, t)
      <3> DEFINE s == IF x \in aborted THEN "cancelled" ELSE "failed"
      <3>1. s \in Cp!TaskStatus
        BY <2>1
      <3>2. Cp!Ends(x, t, s) /\ actor[x].pc = "work" /\ UNCHANGED <<plan, shown, overlap>>
        BY <2>5 DEF Cp!WorkerFails
      <3> HIDE DEF s
      <3> QED  BY <3>1, <3>2, EndsKeeps
    <2> QED  BY <1>3, <2>2, <2>3, <2>4, <2>5
  <1>4. ASSUME NEW x \in Actor, Cp!WorkersFailed(x) \/ Cp!StartVerifier(x)
        PROVE  CloudInv'
    <2>1. x \in Cp!Busy /\ UNCHANGED overlap
      BY <1>4 DEF Cp!WorkersFailed, Cp!StartVerifier, Cp!Busy
    <2>2. {"failed", "verifying"} \subseteq Cp!PlanStatus \ {"completed"}
      BY DEF Cp!PlanStatus
    <2>3. \/ Cp!Write(x, [actor[x].plan EXCEPT !.status = "failed"], "idle")
          \/ Cp!Write(x, [actor[x].plan EXCEPT !.status = "verifying"], "verify")
      BY <1>4 DEF Cp!WorkersFailed, Cp!StartVerifier
    <2> QED  BY <2>1, <2>2, <2>3, StatusKeeps
  <1>5. ASSUME NEW x \in Actor, NEW passed \in BOOLEAN, Cp!Verdict(x, passed)
        PROVE  CloudInv'
    BY <1>5, VerdictKeeps
  <1>6. ASSUME NEW x \in Actor, Cp!Execute(x) \/ Cp!CancelRead(x) \/ Cp!CancelRuns(x) \/ Cp!Kill(x)
        PROVE  CloudInv'
    BY <1>6, ExecuteKeeps, CancelReadKeeps, CancelRunsKeeps, CloudKillKeeps
  <1>7. ASSUME NEW x \in Actor, Cp!Abort(x)
        PROVE  CloudInv'
    BY <1>7, StutterKeeps DEF Cp!Abort
  <1> QED  BY <1>1, <1>2, <1>3, <1>4, <1>5, <1>6, <1>7 DEF Cp!Next

-----------------------------------------------------------------------------
\* A plan file is one and a copy is, whatever calls overlap or are killed (executePlan,
\* ingestLateHandoff and cancelPlan of cloud-orchestration/orchestrator.ts).
THEOREM TypeCorrect == Cp!Spec => []Cp!TypeOK
  <1>1. CloudInv => Cp!TypeOK
    BY DEF CloudInv
  <1> QED  BY <1>1, CloudInitially, CloudStepKeeps, PTL DEF Cp!Spec

\* Unless calls overlapped, a plan is not "completed" with a late handoff that the verifier which
\* passed has not seen (executePlan's verdict, cloud-orchestration/orchestrator.ts).
THEOREM NothingUnverified == Cp!Spec => []Cp!CompletedWasVerified
  <1>1. CloudInv => Cp!CompletedWasVerified
    BY DEF CloudInv
  <1> QED  BY <1>1, CloudInitially, CloudStepKeeps, PTL DEF Cp!Spec

-----------------------------------------------------------------------------
(* Checkpoints.  Whoever holds the lock and works on a generation works on *)
(* the one after the pointer's; at most one immutable file is therefore    *)
(* ahead of the pointer, also where a call was killed between the two.     *)

\* The pointer names the newest generation or the one before; who holds the lock works on
\* the one after it.
CheckpointInv ==
    /\ Ck!TypeOK
    /\ fresh \in Nat /\ current \in Nat
    /\ Len(immutable) \in {current, current + 1}
    /\ \A c \in Caller:
        /\ caller[c].pc # "idle" => caller[c].payload \in Payload \cup Nat
        /\ caller[c].pc \in {"immutable", "pointer"} =>
             checkpointLock = c /\ caller[c].expected = current
        /\ caller[c].pc = "immutable" => Len(immutable) = current
        /\ caller[c].pc = "pointer" => Len(immutable) = current + 1

CheckpointCalls == [pc: {"idle", "lock", "immutable", "pointer"}, expected: Nat,
          payload: Payload \cup Nat \cup {None}]

\* A call that does not hold the lock afterwards disturbs no other.
LEMMA CheckpointCallerKeeps ==
    ASSUME CheckpointInv, NEW c \in Caller, NEW d \in CheckpointCalls,
    caller' = [caller EXCEPT ![c] = d],
           UNCHANGED <<immutable, current>>, fresh' \in Nat,
           d.pc # "idle" => d.payload \in Payload \cup Nat,
           d.pc \in {"immutable", "pointer"} =>
             checkpointLock' = c /\ d.expected = current /\ checkpointLock \in {None, c},
           d.pc = "immutable" => Len(immutable) = current,
           d.pc = "pointer" => Len(immutable) = current + 1,
           checkpointLock' \in Caller \cup {None},
           checkpointLock \notin {None, c} => checkpointLock' = checkpointLock,
           Ck!NoneFits
    PROVE  CheckpointInv' /\ Ck!CheckpointsKept
  <1>1. Ck!TypeOK'
    BY DEF CheckpointInv, Ck!TypeOK, CheckpointCalls
  <1>2. ASSUME NEW x \in Caller, x # c, caller[x].pc \in {"immutable", "pointer"}
        PROVE  checkpointLock' = x
    BY <1>2 DEF CheckpointInv, Ck!NoneFits
  <1>3. \A x \in Caller: caller'[x] = IF x = c THEN d ELSE caller[x]
    BY DEF CheckpointInv, Ck!TypeOK
  <1>4. CheckpointInv'
    BY <1>1, <1>2, <1>3 DEF CheckpointInv
  <1>5. Ck!CheckpointsKept
    BY DEF Ck!CheckpointsKept, Ck!IsPrefix, CheckpointInv, Ck!TypeOK
  <1> QED  BY <1>4, <1>5

LEMMA CheckpointInitially == ASSUME Ck!Init PROVE CheckpointInv
  BY DEF Ck!Init, CheckpointInv, Ck!TypeOK, Ck!Rest

LEMMA CheckpointStepKeeps ==
    ASSUME Ck!NoneFits, CheckpointInv, [Ck!Next]_Ck!vars
    PROVE  CheckpointInv' /\ Ck!CheckpointsKept
  <1>1. CASE UNCHANGED Ck!vars
    BY <1>1 DEF Ck!vars, CheckpointInv, Ck!TypeOK, Ck!CheckpointsKept, Ck!IsPrefix
  <1>2. ASSUME NEW c \in Caller, NEW payload \in Payload, NEW expected \in {current, 0},
               Ck!Command(c, expected, payload)
        PROVE  CheckpointInv' /\ Ck!CheckpointsKept
    <2> DEFINE d == [pc |-> "lock", expected |-> expected, payload |-> payload]
    <2>1. d \in CheckpointCalls /\ d.pc = "lock" /\ d.payload \in Payload \cup Nat
      BY DEF CheckpointCalls, CheckpointInv
    <2> HIDE DEF d
    <2>2. /\ caller' = [caller EXCEPT ![c] = d] /\ UNCHANGED <<immutable, current, checkpointLock>>
          /\ fresh' \in Nat /\ checkpointLock' \in Caller \cup {None}
      BY <1>2 DEF Ck!Command, Ck!Begin, CheckpointInv, Ck!TypeOK, d
    <2> QED  BY <2>1, <2>2, CheckpointCallerKeeps
  <1>3. ASSUME NEW c \in Caller, Ck!PreCompact(c)
        PROVE  CheckpointInv' /\ Ck!CheckpointsKept
    <2> DEFINE d == [pc |-> "lock", expected |-> current, payload |-> fresh]
    <2>1. d \in CheckpointCalls /\ d.pc = "lock" /\ d.payload \in Payload \cup Nat
      BY DEF CheckpointCalls, CheckpointInv
    <2> HIDE DEF d
    <2>2. /\ caller' = [caller EXCEPT ![c] = d] /\ UNCHANGED <<immutable, current, checkpointLock>>
          /\ fresh' \in Nat /\ checkpointLock' \in Caller \cup {None}
      BY <1>3 DEF Ck!PreCompact, Ck!Begin, CheckpointInv, Ck!TypeOK, d
    <2> QED  BY <2>1, <2>2, CheckpointCallerKeeps
  <1>4. Ck!Rest \in CheckpointCalls /\ Ck!Rest.pc = "idle"
    BY DEF Ck!Rest, CheckpointCalls
  <1>5. ASSUME NEW c \in Caller, Ck!Locked(c)
        PROVE  CheckpointInv' /\ Ck!CheckpointsKept
    <2> DEFINE next == caller[c].expected + 1
    <2>1. /\ UNCHANGED <<immutable, current, fresh>> /\ fresh' \in Nat
          /\ caller[c].pc = "lock" /\ checkpointLock = None
          /\ checkpointLock' \in Caller \cup {None}
      BY <1>5 DEF Ck!Locked, CheckpointInv, Ck!TypeOK
    <2>2. CASE Ck!End(c) /\ UNCHANGED checkpointLock
      BY <1>4, <2>1, <2>2, CheckpointCallerKeeps DEF Ck!End
    <2>3. CASE ~ (Ck!End(c) /\ UNCHANGED checkpointLock)
      <3> DEFINE l == IF next \in DOMAIN immutable THEN "pointer" ELSE "immutable"
                 d == [caller[c] EXCEPT !.pc = l]
      <3>1. /\ current = caller[c].expected /\ checkpointLock' = c
            /\ caller' = [caller EXCEPT ![c] = d]
        BY <1>5, <2>3 DEF Ck!Locked, Ck!Goto, CheckpointInv, Ck!TypeOK
      <3>2. caller[c] \in CheckpointCalls /\ caller[c].payload \in Payload \cup Nat
        BY <2>1 DEF CheckpointInv, Ck!TypeOK, CheckpointCalls
      <3>3. d \in CheckpointCalls /\ d.pc = l /\ d.expected = current /\ d.payload \in Payload \cup Nat
        BY <3>1, <3>2 DEF CheckpointCalls
      <3>4. DOMAIN immutable = 1 .. Len(immutable) /\ current \in Nat
            /\ Len(immutable) \in {current, current + 1}
        BY DEF CheckpointInv, Ck!TypeOK
      <3>5. /\ l = "immutable" => Len(immutable) = current
            /\ l = "pointer" => Len(immutable) = current + 1
        BY <3>1, <3>4
      <3> HIDE DEF d, l
      <3> QED  BY <2>1, <3>1, <3>3, <3>5, CheckpointCallerKeeps
    <2> QED  BY <2>2, <2>3
  <1>6. ASSUME NEW c \in Caller, Ck!WriteImmutable(c)
        PROVE  CheckpointInv' /\ Ck!CheckpointsKept
    <2> DEFINE p == caller[c].payload
               d == [caller[c] EXCEPT !.pc = "pointer"]
    <2>1. /\ caller[c] \in CheckpointCalls /\ caller[c].pc = "immutable" /\ p \in Payload \cup Nat
          /\ checkpointLock = c /\ caller[c].expected = current /\ Len(immutable) = current
          /\ immutable \in Seq(Payload \cup Nat)
      BY <1>6 DEF Ck!WriteImmutable, CheckpointInv, Ck!TypeOK, CheckpointCalls
    <2>2. d \in CheckpointCalls /\ d.pc = "pointer" /\ d.expected = current /\ d.payload = p
      BY <2>1 DEF CheckpointCalls
    <2>3. /\ immutable' = Append(immutable, p) /\ caller' = [caller EXCEPT ![c] = d]
          /\ UNCHANGED <<current, checkpointLock, fresh>>
      BY <1>6 DEF Ck!WriteImmutable, Ck!Goto, CheckpointInv, Ck!TypeOK
    <2> HIDE DEF p, d
    <2>4. /\ immutable' \in Seq(Payload \cup Nat) /\ Len(immutable') = current + 1
          /\ Ck!IsPrefix(immutable, immutable')
      BY <2>1, <2>3 DEF Ck!IsPrefix
    <2>5. \A x \in Caller: caller'[x] = IF x = c THEN d ELSE caller[x]
      BY <2>3 DEF CheckpointInv, Ck!TypeOK
    <2>6. Ck!TypeOK'
      BY <2>2, <2>3, <2>4 DEF CheckpointInv, Ck!TypeOK, CheckpointCalls
    <2>7. CheckpointInv'
      BY <2>1, <2>2, <2>3, <2>4, <2>5, <2>6 DEF CheckpointInv
    <2> QED  BY <2>3, <2>4, <2>7 DEF Ck!CheckpointsKept, CheckpointInv
  <1>7. ASSUME NEW c \in Caller, Ck!WritePointer(c)
        PROVE  CheckpointInv' /\ Ck!CheckpointsKept
    <2>1. /\ caller[c].pc = "pointer" /\ checkpointLock = c /\ caller[c].expected = current
          /\ Len(immutable) = current + 1 /\ current \in Nat
      BY <1>7 DEF Ck!WritePointer, CheckpointInv
    <2>2. /\ current' = current + 1 /\ checkpointLock' = None /\ caller' = [caller EXCEPT ![c] = Ck!Rest]
          /\ UNCHANGED <<immutable, fresh>>
      BY <1>7, <2>1 DEF Ck!WritePointer, Ck!Pointer, Ck!End
    <2>3. \A x \in Caller: caller'[x] = IF x = c THEN Ck!Rest ELSE caller[x]
      BY <2>2 DEF CheckpointInv, Ck!TypeOK
    <2>4. \A x \in Caller: caller'[x].pc \notin {"immutable", "pointer"}
      BY <1>4, <2>1, <2>3 DEF CheckpointInv
    <2>5. Ck!TypeOK'
      BY <1>4, <2>2 DEF CheckpointInv, Ck!TypeOK, CheckpointCalls
    <2>6. CheckpointInv'
      BY <1>4, <2>1, <2>2, <2>3, <2>4, <2>5 DEF CheckpointInv
    <2> QED  BY <2>1, <2>2, <2>6 DEF Ck!CheckpointsKept, Ck!IsPrefix
  <1>8. ASSUME NEW c \in Caller, Ck!Kill(c)
        PROVE  CheckpointInv' /\ Ck!CheckpointsKept
    <2>1. /\ UNCHANGED <<immutable, current, fresh>> /\ caller' = [caller EXCEPT ![c] = Ck!Rest]
          /\ checkpointLock' = IF checkpointLock = c THEN None ELSE checkpointLock
          /\ fresh' \in Nat /\ checkpointLock \in Caller \cup {None}
      BY <1>8 DEF Ck!Kill, Ck!End, CheckpointInv, Ck!TypeOK
    <2> QED  BY <1>4, <2>1, CheckpointCallerKeeps
  <1> QED  BY <1>1, <1>2, <1>3, <1>5, <1>6, <1>7, <1>8 DEF Ck!Next

\* The generations up to the pointer are there and never change, and no call skips one or takes
\* one back, wherever calls are killed (CompactionStore.checkpoint, compaction/index.ts).
THEOREM CheckpointKept == ASSUME Ck!NoneFits PROVE Ck!Spec => [][Ck!CheckpointsKept]_Ck!vars
  <1>1. CheckpointInv /\ [Ck!Next]_Ck!vars => CheckpointInv' /\ Ck!CheckpointsKept
    BY CheckpointStepKeeps
  <1> QED  BY <1>1, CheckpointInitially, PTL DEF Ck!Spec

-----------------------------------------------------------------------------
(* Recovery.  A file that still is the one that was opened, unchanged, is  *)
(* the content the lines were read from: the ring holds the last lines of  *)
(* what was read, and at the end of the scan those of a whole content.     *)
(* The same holds of the omitted lines when they are searched, so that     *)
(* what a call is about to give is true of that content for good; what is  *)
(* published is what some call was about to give.                          *)

RecoveryParameters == LineLimit \in Nat \ {0} /\ Rc!NoneFits

Files == [ino: Nat, version: Nat, lines: Seq(Lines) \ {<<>>}]
Retained == [line: Lines, spilled: BOOLEAN]
Parents == {l.parent : l \in Lines}
Steps == {"idle", "scan", "prefix", "reverify", "copy", "fill", "snapshot", "write", "seal", "done"}
Readers == [pc: Steps, ino: Nat, version: Nat, read: Nat,
            found: SUBSET Parents, unverified: SUBSET Parents, incomplete: BOOLEAN]

\* The last lines, counted from the end.
RecoveryKept(lines) == IF Len(lines) > LineLimit THEN LineLimit ELSE Len(lines)
Ending(lines) == [i \in 1 .. RecoveryKept(lines) |-> lines[Len(lines) - RecoveryKept(lines) + i]]
Omitted(lines) == SubSeq(lines, 1, Len(lines) - LineLimit)

-----------------------------------------------------------------------------
RecoveryTypeInv ==
    /\ transcript \in Files
    /\ contents \subseteq Seq(Lines) \ {<<>>}
    /\ transcript.lines \in contents
    /\ ring \in [Caller -> Seq(Retained)]
    /\ \A c \in Caller: Len(ring[c]) <= LineLimit
    /\ reader \in [Caller -> Readers]
    /\ answers = [c \in Caller |-> answers[c]]
    /\ copy # None => copy \in Rc!Copies

\* What a recovery says is true of one content of the transcript.
Holds(answer) ==
    \E lines \in contents:
        /\ answer.tail = Rc!LastLines(lines)
        /\ \A verdict \in answer.chain:
            /\ verdict[2] = "outside" => verdict[1] \in Rc!Ids(lines)
            /\ verdict[2] = "broken" => verdict[1] \notin Rc!Ids(lines) \cup Rc!Cut(lines)

\* What is known of the file that was opened.
Opening(c) ==
    /\ reader[c].version <= transcript.version
    /\ reader[c].ino # transcript.ino => former \in Files

Blank(c) == reader[c].found = {} /\ reader[c].unverified = {} /\ ~ reader[c].incomplete

HasRead(c, lines) == reader[c].read = Len(lines) /\ Rc!TailOf(c) = Ending(lines)

Scanning(c) ==
    /\ reader[c].pc = "idle" => Blank(c) /\ reader[c].read = 0 /\ ring[c] = <<>>
    /\ reader[c].pc = "scan" =>
         /\ Blank(c)
         /\ Rc!Unchanged(c) => /\ reader[c].read <= Len(transcript.lines)
                            /\ HasRead(c, SubSeq(transcript.lines, 1, reader[c].read))

Searching(c) ==
    /\ reader[c].pc = "prefix" =>
         /\ Blank(c) /\ Rc!Truncated(c)
         /\ \E lines \in contents: HasRead(c, lines)
         /\ Rc!Unchanged(c) => HasRead(c, transcript.lines)
    /\ reader[c].pc = "reverify" =>
         /\ Rc!Truncated(c) /\ ~ reader[c].incomplete
         /\ Rc!Unchanged(c) =>
              /\ HasRead(c, transcript.lines)
              /\ reader[c].found = Rc!Missing(c) \cap Rc!Ids(Omitted(transcript.lines))
              /\ reader[c].unverified = (Rc!Missing(c) \cap Rc!Cut(Omitted(transcript.lines)))
                                        \ Rc!Ids(Omitted(transcript.lines))

Copied(c) == copy # None /\ copy.whole /\ copy.tail = Rc!TailOf(c)

SnapshotFits ==
    /\ snapshot = [tail |-> snapshot.tail, sealed |-> snapshot.sealed, given |-> snapshot.given]
    /\ copy # None /\ copy.whole /\ snapshot.tail = copy.tail
    /\ Holds(snapshot.given)

Publishing(c) ==
    /\ reader[c].pc \in {"copy", "fill", "snapshot", "write", "seal"} => Holds(Rc!Given(c))
    /\ reader[c].pc = "fill" => copy # None /\ copy.tail = Rc!TailOf(c)
    /\ reader[c].pc \in {"snapshot", "write", "seal"} => Copied(c)
    /\ reader[c].pc = "seal" => SnapshotFits

RecoveryCallerInv(c) == Opening(c) /\ Scanning(c) /\ Searching(c) /\ Publishing(c)

RecoveryInv ==
    /\ RecoveryTypeInv
    /\ snapshot # None => SnapshotFits
    /\ Rc!RecoveryIsTrue
    /\ \A c \in Caller: RecoveryCallerInv(c)

-----------------------------------------------------------------------------
(* Lines.                                                                  *)

LEMMA MaxOfTwo ==
    ASSUME NEW a \in Int, NEW b \in Int
    PROVE  Rc!Max({a, b}) = IF a >= b THEN a ELSE b
  <1>1. \E x \in {a, b}: \A y \in {a, b}: x >= y
    OBVIOUS
  <1>2. Rc!Max({a, b}) \in {a, b} /\ \A y \in {a, b}: Rc!Max({a, b}) >= y
    BY <1>1 DEF Rc!Max
  <1> QED  BY <1>2

LEMMA MinOfTwo ==
    ASSUME NEW a \in Int, NEW b \in Int
    PROVE  Rc!Min({a, b}) = IF a <= b THEN a ELSE b
  <1>1. \E x \in {a, b}: \A y \in {a, b}: x <= y
    OBVIOUS
  <1>2. Rc!Min({a, b}) \in {a, b} /\ \A y \in {a, b}: Rc!Min({a, b}) <= y
    BY <1>1 DEF Rc!Min
  <1> QED  BY <1>2

LEMMA SameLines ==
    ASSUME NEW S, NEW s \in Seq(S), NEW t \in Seq(S), Len(s) = Len(t),
           \A i \in 1 .. Len(s): s[i] = t[i]
    PROVE  s = t
  OBVIOUS

LEMMA Entry ==
    ASSUME NEW S, NEW s \in Seq(S)
    PROVE  DOMAIN s = 1 .. Len(s) /\ Len(s) \in Nat /\ \A i \in 1 .. Len(s): s[i] \in S
  OBVIOUS

\* LastLines are the last lines.
LEMMA LastLinesEnd ==
    ASSUME RecoveryParameters, NEW lines \in Seq(Lines)
    PROVE  Rc!LastLines(lines) = Ending(lines) /\ Ending(lines) \in Seq(Lines)
  <1> DEFINE m == Len(lines) - LineLimit + 1
  <1>1. m \in Int /\ Len(lines) \in Nat /\ LineLimit \in Nat
    BY DEF RecoveryParameters
  <1>2. Rc!Max({1, m}) = IF m > 1 THEN m ELSE 1
    BY <1>1, MaxOfTwo
  <1>3. Rc!LastLines(lines) = SubSeq(lines, Rc!Max({1, m}), Len(lines))
    BY DEF Rc!LastLines
  <1> DEFINE k == RecoveryKept(lines)
             first == Rc!Max({1, m})
  <1>4. k \in 0 .. Len(lines) /\ k = IF m > 1 THEN LineLimit ELSE Len(lines)
    BY <1>1 DEF RecoveryKept
  <1> HIDE DEF first, k
  <1>5. first = Len(lines) - k + 1
    <2>1. CASE m > 1
      <3>1. first = m
        BY <1>2, <2>1 DEF first
      <3> QED  BY <1>1, <1>4, <2>1, <3>1
    <2>2. CASE ~ m > 1
      <3>1. first = 1
        BY <1>2, <2>2 DEF first
      <3> QED  BY <1>1, <1>4, <2>2, <3>1
    <2> QED  BY <2>1, <2>2
  <1>6. Ending(lines) = [i \in 1 .. k |-> lines[Len(lines) - k + i]]
    BY DEF Ending, k
  <1> HIDE DEF m
  <1>7. SubSeq(lines, first, Len(lines)) = [i \in 1 .. k |-> lines[Len(lines) - k + i]]
    <2>0. Len(lines) \in Nat /\ k \in Nat /\ k <= Len(lines)
      BY <1>1, <1>4
    <2>1. first \in 1 .. Len(lines) + 1 /\ Len(lines) - first + 1 = k
      BY <2>0, <1>5
    <2>2. SubSeq(lines, first, Len(lines)) = [i \in 1 .. Len(lines) - first + 1 |-> lines[first + i - 1]]
      BY <2>1
    <2>3. \A i \in 1 .. k: first + i - 1 = Len(lines) - k + i
      BY <1>1, <1>4, <1>5
    <2> QED  BY <2>1, <2>2, <2>3
  <1>8. Ending(lines) \in Seq(Lines)
    <2>0. Len(lines) \in Nat /\ k \in Nat /\ k <= Len(lines)
      BY <1>1, <1>4
    <2>1. \A i \in 1 .. k: Len(lines) - k + i \in 1 .. Len(lines)
      BY <2>0
    <2>2. \A i \in 1 .. k: lines[Len(lines) - k + i] \in Lines
      BY <2>1, Entry
    <2> QED  BY <2>0, <1>6, <2>2
  <1> QED  BY <1>3, <1>6, <1>7, <1>8 DEF first

\* A line more, and at most LineLimit of them.
LEMMA EndingGrows ==
    ASSUME RecoveryParameters, NEW lines \in Seq(Lines), NEW i \in 1 .. Len(lines)
    PROVE  Ending(SubSeq(lines, 1, i)) =
             LET old == Ending(SubSeq(lines, 1, i - 1)) IN
             Append(IF Len(old) = LineLimit THEN Tail(old) ELSE old, lines[i])
  <1> DEFINE k == IF i - 1 > LineLimit THEN LineLimit ELSE i - 1
             n == IF i > LineLimit THEN LineLimit ELSE i
             old == [j \in 1 .. k |-> lines[i - 1 - k + j]]
             new == [j \in 1 .. n |-> lines[i - n + j]]
             kept == IF Len(old) = LineLimit THEN Tail(old) ELSE old
  <1>0. /\ LineLimit \in Nat /\ LineLimit > 0 /\ Len(lines) \in Nat /\ i \in Nat
        /\ i >= 1 /\ i <= Len(lines)
    BY DEF RecoveryParameters
  <1>1. Ending(SubSeq(lines, 1, i - 1)) = old
    <2> DEFINE s == SubSeq(lines, 1, i - 1)
    <2>1. Len(s) = i - 1 /\ \A j \in 1 .. i - 1: s[j] = lines[j]
      BY <1>0
    <2> HIDE DEF s
    <2>2. RecoveryKept(s) = k /\ k \in 0 .. i - 1
      BY <1>0, <2>1 DEF RecoveryKept
    <2> HIDE DEF k
    <2>3. \A j \in 1 .. k: s[i - 1 - k + j] = lines[i - 1 - k + j]
      BY <1>0, <2>1, <2>2
    <2>4. Ending(s) = [j \in 1 .. k |-> s[i - 1 - k + j]]
      BY <2>1, <2>2 DEF Ending
    <2> QED  BY <2>3, <2>4 DEF s
  <1>2. Ending(SubSeq(lines, 1, i)) = new
    BY DEF RecoveryParameters, Ending, RecoveryKept
  <1>3. /\ old \in Seq(Lines) /\ Len(old) = k
        /\ \A j \in 1 .. k: old[j] = lines[i - 1 - k + j]
    BY DEF RecoveryParameters
  <1>4. new \in Seq(Lines) /\ Len(new) = n
    BY DEF RecoveryParameters
  <1>5. /\ kept \in Seq(Lines) /\ Len(kept) = n - 1
        /\ \A j \in 1 .. n - 1: kept[j] = lines[i - n + j]
    <2> HIDE DEF old
    <2>1. CASE k = LineLimit
      <3>1. n = k /\ kept = Tail(old)
        BY <1>0, <1>3, <2>1
      <3> HIDE DEF k, n, kept
      <3>2. /\ Tail(old) \in Seq(Lines) /\ Len(Tail(old)) = k - 1
            /\ \A j \in 1 .. k - 1: Tail(old)[j] = old[j + 1]
        BY <1>0, <1>3, <2>1
      <3>3. \A j \in 1 .. k - 1: old[j + 1] = lines[i - k + j]
        BY <1>0, <1>3, <2>1
      <3> QED  BY <3>1, <3>2, <3>3
    <2>2. CASE k # LineLimit
      <3>1. n = i /\ k = i - 1 /\ kept = old
        BY <1>0, <1>3, <2>2
      <3> HIDE DEF k, n, kept
      <3> QED  BY <1>0, <1>3, <3>1
    <2> QED  BY <2>1, <2>2
  <1>6. Append(kept, lines[i]) = new
    <2> HIDE DEF kept
    <2>1. Len(Append(kept, lines[i])) = n /\ Append(kept, lines[i]) \in Seq(Lines)
      BY <1>5 DEF RecoveryParameters
    <2>2. \A j \in 1 .. n: Append(kept, lines[i])[j] = new[j]
      BY <1>5 DEF RecoveryParameters
    <2> HIDE DEF new
    <2> QED  BY <2>1, <2>2, <1>4, SameLines
  <1> QED  BY <1>1, <1>2, <1>6

\* The ring holds the lines that were pushed last.
LEMMA Pushed ==
    ASSUME RecoveryParameters, NEW lines \in Seq(Retained), Len(lines) <= LineLimit,
    NEW line \in Lines
    PROVE  LET tail == [i \in DOMAIN lines |-> lines[i].line] IN
           /\ Rc!Push(lines, line) \in Seq(Retained) /\ Len(Rc!Push(lines, line)) <= LineLimit
           /\ [i \in DOMAIN Rc!Push(lines, line) |-> Rc!Push(lines, line)[i].line] =
                Append(IF Len(tail) = LineLimit THEN Tail(tail) ELSE tail, line)
  <1> DEFINE kept == IF Len(lines) = LineLimit THEN Tail(lines) ELSE lines
             all == Append(kept, [line |-> line, spilled |-> FALSE])
             tail == [i \in DOMAIN lines |-> lines[i].line]
             left == IF Len(tail) = LineLimit THEN Tail(tail) ELSE tail
  <1>0. LineLimit \in Nat /\ LineLimit > 0 /\ Len(lines) \in Nat
    BY DEF RecoveryParameters
  <1>1. kept \in Seq(Retained) /\ Len(kept) < LineLimit
    <2>1. CASE Len(lines) = LineLimit
      BY <1>0, <2>1
    <2>2. CASE Len(lines) # LineLimit
      BY <1>0, <2>2
    <2> QED  BY <2>1, <2>2
  <1>2. tail \in Seq(Lines) /\ Len(tail) = Len(lines)
    <2>1. \A i \in 1 .. Len(lines): lines[i].line \in Lines
      <3>1. \A r \in Retained: r.line \in Lines
        BY DEF Retained
      <3> QED  BY <3>1, Entry
    <2>2. DOMAIN lines = 1 .. Len(lines)
      BY Entry
    <2> QED  BY <1>0, <2>1, <2>2
  <1>3. /\ left \in Seq(Lines) /\ Len(left) = Len(kept)
        /\ \A i \in 1 .. Len(kept): left[i] = kept[i].line
    <2>1. CASE Len(lines) = LineLimit
      <3> HIDE DEF tail
      <3>1. left = Tail(tail) /\ kept = Tail(lines)
        BY <1>2, <2>1
      <3>2. Len(Tail(tail)) = Len(lines) - 1 /\ Len(Tail(lines)) = Len(lines) - 1
        BY <1>0, <1>2, <2>1
      <3>3. \A i \in 1 .. Len(lines) - 1: Tail(tail)[i] = tail[i + 1] /\ Tail(lines)[i] = lines[i + 1]
        BY <1>0, <1>2, <2>1
      <3>4. \A i \in 1 .. Len(lines): tail[i] = lines[i].line
        BY DEF tail
      <3>5. Tail(tail) \in Seq(Lines)
        BY <1>0, <1>2, <2>1
      <3>6. \A i \in 1 .. Len(lines) - 1: i + 1 \in 1 .. Len(lines)
        BY <1>0
      <3> HIDE DEF left, kept
      <3> QED  BY <3>1, <3>2, <3>3, <3>4, <3>5, <3>6
    <2>2. CASE Len(lines) # LineLimit
      <3>1. left = tail /\ kept = lines
        BY <1>2, <2>2
      <3>2. \A i \in 1 .. Len(lines): tail[i] = lines[i].line
        BY <1>0 DEF tail
      <3> HIDE DEF left, kept, tail
      <3> QED  BY <1>2, <3>1, <3>2
    <2> QED  BY <2>1, <2>2
  <1>4. PICK n: Rc!Spill(all) = [i \in DOMAIN all |-> [all[i] EXCEPT !.spilled = @ \/ i <= n]]
    BY DEF Rc!Spill
  <1>5. Rc!Push(lines, line) = Rc!Spill(all)
    BY DEF Rc!Push
  <1> HIDE DEF kept, left
  <1>6. /\ all \in Seq(Retained) /\ Len(all) = Len(kept) + 1
        /\ \A i \in 1 .. Len(kept): all[i] = kept[i]
        /\ all[Len(kept) + 1].line = line
    BY <1>1 DEF Retained
  <1> HIDE DEF all
  <1>7. /\ Rc!Spill(all) \in Seq(Retained) /\ Len(Rc!Spill(all)) = Len(all)
        /\ \A i \in 1 .. Len(all): Rc!Spill(all)[i].line = all[i].line
    <2>1. \A i \in DOMAIN all:
             /\ [all[i] EXCEPT !.spilled = @ \/ i <= n] \in Retained
             /\ [all[i] EXCEPT !.spilled = @ \/ i <= n].line = all[i].line
      <3> TAKE i \in DOMAIN all
      <3> DEFINE b == all[i].spilled \/ i <= n
      <3>1. all[i] = [line |-> all[i].line, spilled |-> all[i].spilled] /\ all[i].line \in Lines
        <4>1. all[i] \in Retained
          BY <1>6, Entry
        <4> QED  BY <4>1 DEF Retained
      <3>2. b \in BOOLEAN
        OBVIOUS
      <3> HIDE DEF b
      <3>3. [all[i] EXCEPT !.spilled = b] = [line |-> all[i].line, spilled |-> b]
        BY <3>1
      <3>4. [all[i] EXCEPT !.spilled = @ \/ i <= n] = [all[i] EXCEPT !.spilled = b]
        BY DEF b
      <3> QED  BY <3>1, <3>2, <3>3, <3>4 DEF Retained
    <2>2. DOMAIN all = 1 .. Len(all)
      BY <1>6
    <2> DEFINE g(i) == [all[i] EXCEPT !.spilled = @ \/ i <= n]
    <2>3. Rc!Spill(all) = [i \in 1 .. Len(all) |-> g(i)] /\ Len(all) \in Nat
      BY <1>4, <1>6, <2>2
    <2>4. \A i \in 1 .. Len(all): g(i) \in Retained /\ g(i).line = all[i].line
      BY <2>1, <2>2
    <2> HIDE DEF g
    <2> QED  BY <2>3, <2>4
  <1> DEFINE res == [i \in DOMAIN Rc!Spill(all) |-> Rc!Spill(all)[i].line]
  <1>8. res \in Seq(Lines) /\ Len(res) = Len(kept) + 1
    <2>1. \A i \in DOMAIN Rc!Spill(all): Rc!Spill(all)[i].line \in Lines
      <3> DEFINE sp == Rc!Spill(all)
      <3>1. sp \in Seq(Retained)
        BY <1>7
      <3> HIDE DEF sp
      <3>2. \A i \in DOMAIN sp: sp[i] \in Retained
        BY <3>1, Entry
      <3>3. \A r \in Retained: r.line \in Lines
        BY DEF Retained
      <3> QED  BY <3>2, <3>3 DEF sp
    <2>2. DOMAIN Rc!Spill(all) = 1 .. Len(kept) + 1 /\ Len(kept) \in Nat
      BY <1>1, <1>6, <1>7
    <2> QED  BY <2>1, <2>2
  <1>9. \A i \in 1 .. Len(kept) + 1: res[i] = Append(left, line)[i]
    BY <1>1, <1>3, <1>6, <1>7
  <1>10. Append(left, line) \in Seq(Lines) /\ Len(Append(left, line)) = Len(kept) + 1
    BY <1>3
  <1>11. res = Append(left, line)
    <2> HIDE DEF res
    <2> QED  BY <1>8, <1>9, <1>10, SameLines
  <1>12. Len(Rc!Spill(all)) <= LineLimit
    BY <1>0, <1>1, <1>6, <1>7
  <1> QED  BY <1>5, <1>7, <1>11, <1>12 DEF left

\* Every line is among the omitted ones or the last ones.
LEMMA Parts ==
    ASSUME RecoveryParameters, NEW lines \in Seq(Lines), Len(lines) > LineLimit
    PROVE  /\ Rc!Ids(lines) = Rc!Ids(Omitted(lines)) \cup Rc!Ids(Ending(lines))
           /\ Rc!Cut(lines) = Rc!Cut(Omitted(lines)) \cup Rc!Cut(Ending(lines))
  <1> DEFINE n == Len(lines) - LineLimit
             omitted == Omitted(lines)
             ending == Ending(lines)
  <1>1. /\ DOMAIN omitted = 1 .. n
        /\ \A i \in 1 .. n: omitted[i] = lines[i]
    BY DEF Omitted, RecoveryParameters
  <1>2. /\ DOMAIN ending = 1 .. LineLimit
        /\ \A i \in 1 .. LineLimit: ending[i] = lines[n + i]
    BY DEF Ending, RecoveryKept, RecoveryParameters
  <1>3. DOMAIN lines = 1 .. n + LineLimit /\ n \in Nat /\ LineLimit \in Nat
    BY DEF RecoveryParameters
  <1>4. \A i \in 1 .. n + LineLimit: i \notin 1 .. n => i - n \in 1 .. LineLimit /\ lines[i] = ending[i - n]
    BY <1>2, <1>3
  <1>5. \A i \in 1 .. LineLimit: n + i \in 1 .. n + LineLimit
    BY <1>3
  <1> HIDE DEF n, omitted, ending
  <1>6. Rc!Ids(lines) = Rc!Ids(omitted) \cup Rc!Ids(ending)
    <2>1. ASSUME NEW i \in DOMAIN lines, Rc!Parses(lines[i])
          PROVE  lines[i].id \in Rc!Ids(omitted) \cup Rc!Ids(ending)
      BY <2>1, <1>1, <1>2, <1>3, <1>4 DEF Rc!Ids
    <2>2. ASSUME NEW i \in DOMAIN omitted, Rc!Parses(omitted[i])
          PROVE  omitted[i].id \in Rc!Ids(lines)
      <3>1. i \in DOMAIN lines /\ omitted[i] = lines[i]
        BY <1>1, <1>3
      <3> QED  BY <2>2, <3>1 DEF Rc!Ids
    <2>3. ASSUME NEW i \in DOMAIN ending, Rc!Parses(ending[i])
          PROVE  ending[i].id \in Rc!Ids(lines)
      <3>1. n + i \in DOMAIN lines /\ ending[i] = lines[n + i]
        BY <1>2, <1>3, <1>5
      <3> QED  BY <2>3, <3>1 DEF Rc!Ids
    <2> QED  BY <2>1, <2>2, <2>3 DEF Rc!Ids
  <1>7. Rc!Cut(lines) = Rc!Cut(omitted) \cup Rc!Cut(ending)
    <2>1. ASSUME NEW i \in DOMAIN lines, ~ Rc!Parses(lines[i])
          PROVE  lines[i].cut \subseteq Rc!Cut(omitted) \cup Rc!Cut(ending)
      BY <2>1, <1>1, <1>2, <1>3, <1>4 DEF Rc!Cut
    <2>2. ASSUME NEW i \in DOMAIN omitted, ~ Rc!Parses(omitted[i])
          PROVE  omitted[i].cut \subseteq Rc!Cut(lines)
      <3>1. i \in DOMAIN lines /\ omitted[i] = lines[i]
        BY <1>1, <1>3
      <3> QED  BY <2>2, <3>1 DEF Rc!Cut
    <2>3. ASSUME NEW i \in DOMAIN ending, ~ Rc!Parses(ending[i])
          PROVE  ending[i].cut \subseteq Rc!Cut(lines)
      <3>1. n + i \in DOMAIN lines /\ ending[i] = lines[n + i]
        BY <1>2, <1>3, <1>5
      <3> QED  BY <2>3, <3>1 DEF Rc!Cut
    <2> QED  BY <2>1, <2>2, <2>3 DEF Rc!Cut
  <1> QED  BY <1>6, <1>7 DEF omitted, ending

-----------------------------------------------------------------------------
(* What is given is true.                                                  *)

LEMMA Verdicts ==
    ASSUME NEW c \in Caller, NEW m
    PROVE  /\ Rc!Verdict(c, m) = "outside" => m \in reader[c].found
           /\ Rc!Verdict(c, m) = "broken" =>
                /\ m \notin reader[c].found
                /\ m \notin Rc!Cut(Rc!TailOf(c)) \cup reader[c].unverified
                /\ ~ reader[c].incomplete
  BY DEF Rc!Verdict

LEMMA TrueIf ==
    ASSUME NEW c \in Caller, NEW lines \in contents, Rc!TailOf(c) = Rc!LastLines(lines),
           \A m \in Rc!Missing(c):
              /\ m \in reader[c].found => m \in Rc!Ids(lines)
              /\ /\ m \notin reader[c].found /\ m \notin Rc!Cut(Rc!TailOf(c)) \cup reader[c].unverified
                 /\ ~ reader[c].incomplete
                 => m \notin Rc!Ids(lines) \cup Rc!Cut(lines)
    PROVE  Holds(Rc!Given(c))
  <1>1. Rc!Given(c).tail = Rc!LastLines(lines)
    BY DEF Rc!Given
  <1>2. ASSUME NEW verdict \in Rc!Given(c).chain
        PROVE  /\ verdict[2] = "outside" => verdict[1] \in Rc!Ids(lines)
               /\ verdict[2] = "broken" => verdict[1] \notin Rc!Ids(lines) \cup Rc!Cut(lines)
    <2>1. PICK m \in Rc!Missing(c): verdict = <<m, Rc!Verdict(c, m)>>
      BY <1>2 DEF Rc!Given
    <2>2. verdict[1] = m /\ verdict[2] = Rc!Verdict(c, m)
      BY <2>1
    <2> QED  BY <2>1, <2>2, Verdicts
  <1> QED  BY <1>1, <1>2 DEF Holds

LEMMA AllRead ==
    ASSUME RecoveryParameters, RecoveryTypeInv, NEW c \in Caller, NEW lines \in contents,
    HasRead(c, lines)
    PROVE  /\ Rc!TailOf(c) = Rc!LastLines(lines)
           /\ ~ Rc!Truncated(c) => Rc!TailOf(c) = lines
           /\ Rc!Truncated(c) => /\ Rc!Ids(lines) = Rc!Ids(Omitted(lines)) \cup Rc!Ids(Rc!TailOf(c))
                              /\ Rc!Cut(lines) = Rc!Cut(Omitted(lines)) \cup Rc!Cut(Rc!TailOf(c))
  <1>1. lines \in Seq(Lines) /\ Len(lines) \in Nat /\ LineLimit \in Nat
    BY DEF RecoveryTypeInv, RecoveryParameters
  <1>2. Rc!TailOf(c) = Rc!LastLines(lines)
    BY <1>1, LastLinesEnd DEF HasRead
  <1>3. ASSUME ~ Rc!Truncated(c)
        PROVE  Rc!TailOf(c) = lines
    <2>1. RecoveryKept(lines) = Len(lines)
      BY <1>1, <1>3 DEF Rc!Truncated, HasRead, RecoveryKept
    <2>2. Ending(lines) = [i \in 1 .. Len(lines) |-> lines[i]]
      BY <1>1, <2>1 DEF Ending
    <2> QED  BY <1>1, <2>2 DEF HasRead
  <1> QED  BY <1>1, <1>2, <1>3, Parts DEF HasRead, Rc!Truncated

LEMMA WholeIsTrue ==
    ASSUME RecoveryParameters, RecoveryTypeInv, NEW c \in Caller, NEW lines \in contents,
    HasRead(c, lines),
           Blank(c), Rc!Missing(c) = {} \/ ~ Rc!Truncated(c)
    PROVE  Holds(Rc!Given(c))
  <1>1. ASSUME NEW m \in Rc!Missing(c), m \notin Rc!Cut(Rc!TailOf(c))
        PROVE  m \notin Rc!Ids(lines) \cup Rc!Cut(lines)
    BY <1>1, AllRead DEF Rc!Missing
  <1> QED  BY <1>1, AllRead, TrueIf DEF Blank

LEMMA IncompleteIsTrue ==
    ASSUME RecoveryParameters, RecoveryTypeInv, NEW c \in Caller, NEW lines \in contents,
    HasRead(c, lines),
           reader[c].found = {}, reader[c].incomplete
    PROVE  Holds(Rc!Given(c))
  BY AllRead, TrueIf

LEMMA SearchedIsTrue ==
    ASSUME RecoveryParameters, RecoveryTypeInv, NEW c \in Caller, NEW lines \in contents,
    HasRead(c, lines),
           Rc!Truncated(c),
           reader[c].found = Rc!Missing(c) \cap Rc!Ids(Omitted(lines)),
           reader[c].unverified = (Rc!Missing(c) \cap Rc!Cut(Omitted(lines))) \ Rc!Ids(Omitted(lines))
    PROVE  Holds(Rc!Given(c))
  <1>1. /\ Rc!Ids(lines) = Rc!Ids(Omitted(lines)) \cup Rc!Ids(Rc!TailOf(c))
        /\ Rc!Cut(lines) = Rc!Cut(Omitted(lines)) \cup Rc!Cut(Rc!TailOf(c))
        /\ Rc!TailOf(c) = Rc!LastLines(lines)
    BY AllRead
  <1>2. ASSUME NEW m \in Rc!Missing(c), m \notin reader[c].found,
               m \notin Rc!Cut(Rc!TailOf(c)) \cup reader[c].unverified
        PROVE  m \notin Rc!Ids(lines) \cup Rc!Cut(lines)
    <2>1. m \notin Rc!Ids(Rc!TailOf(c))
      BY DEF Rc!Missing
    <2> QED  BY <1>1, <1>2, <2>1
  <1> QED  BY <1>1, <1>2, TrueIf

-----------------------------------------------------------------------------
(* Steps.                                                                  *)

CopyKept == copy # None => copy' # None /\ copy'.tail = copy.tail /\ (copy.whole => copy'.whole)

\* What a call would give is in its ring and its findings.
LEMMA SameGiven ==
    ASSUME NEW c \in Caller, ring'[c] = ring[c], reader'[c].found = reader[c].found,
           reader'[c].unverified = reader[c].unverified,
           reader'[c].incomplete = reader[c].incomplete
    PROVE  Rc!TailOf(c)' = Rc!TailOf(c) /\ Rc!Missing(c)' = Rc!Missing(c) /\ Rc!Given(c)' = Rc!Given(c)
  <1>1. Rc!TailOf(c)' = Rc!TailOf(c)
    BY DEF Rc!TailOf
  <1>2. Rc!Missing(c)' = Rc!Missing(c)
    BY <1>1 DEF Rc!Missing
  <1>3. ASSUME NEW m
        PROVE  Rc!Verdict(c, m)' = Rc!Verdict(c, m)
    BY <1>1 DEF Rc!Verdict
  <1>4. Rc!Given(c)' = Rc!Given(c)
    BY <1>1, <1>2, <1>3 DEF Rc!Given
  <1> QED  BY <1>1, <1>2, <1>4

\* A step of one caller is none of another.
LEMMA RecoveryCallerKeeps ==
    ASSUME RecoveryInv, NEW c \in Caller, NEW r \in Readers, NEW s \in Seq(Retained), NEW a,
           Len(s) <= LineLimit, a # None => Holds(a),
           reader' = [reader EXCEPT ![c] = r], ring' = [ring EXCEPT ![c] = s],
           answers' = [answers EXCEPT ![c] = a],
           UNCHANGED <<transcript, former, contents>>,
           CopyKept, copy' # None => copy' \in Rc!Copies,
           snapshot' = snapshot \/ SnapshotFits',
           RecoveryCallerInv(c)'
    PROVE  RecoveryInv'
  <1>1. RecoveryTypeInv'
    BY DEF RecoveryInv, RecoveryTypeInv
  <1>2. ASSUME SnapshotFits
        PROVE  SnapshotFits'
    BY <1>2 DEF SnapshotFits, CopyKept, Holds
  <1>3. (snapshot # None => SnapshotFits)'
    BY <1>2 DEF RecoveryInv
  <1>4. Rc!RecoveryIsTrue'
    BY DEF RecoveryInv, RecoveryTypeInv, Rc!RecoveryIsTrue, Holds
  <1>5. ASSUME NEW d \in Caller, d # c
        PROVE  RecoveryCallerInv(d)'
    <2>1. reader'[d] = reader[d] /\ ring'[d] = ring[d]
      BY <1>5 DEF RecoveryInv, RecoveryTypeInv
    <2>2. /\ Rc!TailOf(d)' = Rc!TailOf(d) /\ Rc!Missing(d)' = Rc!Missing(d) /\ Rc!Given(d)' = Rc!Given(d)
          /\ Rc!Unchanged(d)' <=> Rc!Unchanged(d)
          /\ Rc!Truncated(d)' <=> Rc!Truncated(d)
      BY <2>1, SameGiven DEF Rc!Unchanged, Rc!Truncated
    <2>3. RecoveryCallerInv(d)
      BY DEF RecoveryInv
    <2>4. Opening(d)' /\ Scanning(d)' /\ Searching(d)'
      BY <2>1, <2>2, <2>3 DEF RecoveryCallerInv, Opening, Scanning, Searching, Blank, HasRead
    <2>5. Publishing(d)'
      BY <1>2, <2>1, <2>2, <2>3 DEF RecoveryCallerInv, Publishing, Copied, CopyKept, Holds
    <2> QED  BY <2>4, <2>5 DEF RecoveryCallerInv
  <1> QED  BY <1>1, <1>3, <1>4, <1>5 DEF RecoveryInv

LEMMA CallerMoves ==
    ASSUME RecoveryInv, NEW c \in Caller, NEW r \in Readers, reader' = [reader EXCEPT ![c] = r],
           UNCHANGED <<transcript, former, contents, ring, copy, snapshot, answers>>,
           RecoveryCallerInv(c)'
    PROVE  RecoveryInv'
  <1> DEFINE t == ring[c]
             a == answers[c]
  <1>1. /\ t \in Seq(Retained) /\ Len(t) <= LineLimit
        /\ ring' = [ring EXCEPT ![c] = t]
    BY DEF RecoveryInv, RecoveryTypeInv
  <1>2. /\ a # None => Holds(a)
        /\ answers' = [answers EXCEPT ![c] = a]
    BY DEF RecoveryInv, RecoveryTypeInv, Rc!RecoveryIsTrue, Holds
  <1>3. /\ CopyKept
        /\ copy' # None => copy' \in Rc!Copies
    BY DEF RecoveryInv, RecoveryTypeInv, CopyKept
  <1> HIDE DEF t, a
  <1> QED  BY <1>1, <1>2, <1>3, RecoveryCallerKeeps

\* A call that ends with an answer, or with none.
LEMMA CallerEnds ==
    ASSUME RecoveryInv, NEW c \in Caller, NEW a, a # None => Holds(a), Rc!Answers(c, a),
           UNCHANGED <<transcript, former, contents, ring, copy, snapshot>>
    PROVE  RecoveryInv'
  <1> DEFINE t == ring[c]
             r == [reader[c] EXCEPT !.pc = "done"]
  <1>1. /\ t \in Seq(Retained) /\ Len(t) <= LineLimit
        /\ ring' = [ring EXCEPT ![c] = t]
    BY DEF RecoveryInv, RecoveryTypeInv
  <1>2. reader[c] \in Readers /\ Opening(c)
    BY DEF RecoveryInv, RecoveryTypeInv, RecoveryCallerInv
  <1>3. r \in Readers /\ r.pc = "done" /\ r.ino = reader[c].ino /\ r.version = reader[c].version
    BY <1>2 DEF Readers, Steps
  <1>4. reader' = [reader EXCEPT ![c] = r] /\ answers' = [answers EXCEPT ![c] = a]
    BY DEF Rc!Answers, Rc!Goto, RecoveryInv, RecoveryTypeInv
  <1>5. /\ CopyKept
        /\ copy' # None => copy' \in Rc!Copies
    BY DEF RecoveryInv, RecoveryTypeInv, CopyKept
  <1> HIDE DEF t, r
  <1>6. reader'[c] = r
    BY <1>4 DEF RecoveryInv, RecoveryTypeInv
  <1>7. RecoveryCallerInv(c)'
    BY <1>2, <1>3, <1>6 DEF RecoveryCallerInv, Opening, Scanning, Searching, Publishing
  <1> QED  BY <1>1, <1>3, <1>4, <1>5, <1>7, RecoveryCallerKeeps

LEMMA RecoveryInitially ==
    ASSUME RecoveryParameters, Rc!Init
    PROVE  RecoveryInv
  <1>1. PICK lines \in Rc!Content: transcript = [ino |-> 0, version |-> 0, lines |-> lines]
    BY DEF Rc!Init
  <1>2. lines \in Seq(Lines) \ {<<>>}
    <2>1. PICK n \in 1 .. MaxSource: lines \in [1 .. n -> Lines]
      BY <1>1 DEF Rc!Content
    <2>2. n \in Nat \ {0}
      BY <2>1
    <2>3. lines \in Seq(Lines) /\ Len(lines) = n
      BY <2>1, <2>2
    <2> QED  BY <2>2, <2>3
  <1>3. RecoveryTypeInv
    <2>1. reader \in [Caller -> Readers]
      BY DEF Rc!Init, Readers, Steps
    <2>2. ring \in [Caller -> Seq(Retained)] /\ \A c \in Caller: ring[c] = <<>>
      BY DEF Rc!Init
    <2> QED  BY <1>1, <1>2, <2>1, <2>2 DEF Rc!Init, RecoveryTypeInv, Files, RecoveryParameters
  <1>4. ASSUME NEW c \in Caller
        PROVE  RecoveryCallerInv(c)
    <2>1. /\ reader[c].pc = "idle" /\ reader[c].ino = 0 /\ reader[c].version = 0
          /\ reader[c].read = 0 /\ Blank(c) /\ ring[c] = <<>>
      BY DEF Rc!Init, Blank
    <2> QED  BY <1>1, <2>1 DEF RecoveryCallerInv, Opening, Scanning, Searching, Publishing
  <1> QED  BY <1>3, <1>4 DEF RecoveryInv, Rc!RecoveryIsTrue, Rc!Init

LEMMA OpenKeeps ==
    ASSUME RecoveryParameters, RecoveryInv, NEW c \in Caller, Rc!Open(c)
    PROVE  RecoveryInv'
  <1> DEFINE r == [reader[c] EXCEPT !.pc = "scan", !.ino = transcript.ino,
  !.version = transcript.version]
  <1>1. reader[c] \in Readers /\ RecoveryCallerInv(c) /\ transcript \in Files
    BY DEF RecoveryInv, RecoveryTypeInv
  <1>2. /\ r \in Readers /\ r.pc = "scan" /\ r.ino = transcript.ino /\ r.version = transcript.version
        /\ r.read = reader[c].read /\ r.found = reader[c].found
        /\ r.unverified = reader[c].unverified /\ r.incomplete = reader[c].incomplete
    BY <1>1 DEF Readers, Files, Steps
  <1> HIDE DEF r
  <1>3. /\ reader[c].pc = "idle" /\ reader' = [reader EXCEPT ![c] = r]
        /\ UNCHANGED <<transcript, former, contents, ring, copy, snapshot, answers>>
    BY DEF Rc!Open, Rc!source, RecoveryInv, RecoveryTypeInv, r
  <1>4. reader'[c] = r
    BY <1>3 DEF RecoveryInv, RecoveryTypeInv
  <1>5. HasRead(c, SubSeq(transcript.lines, 1, 0))'
    <2>1. SubSeq(transcript.lines, 1, 0) = <<>> /\ Ending(<<>>) = <<>>
      BY <1>1 DEF Files, Ending, RecoveryKept, RecoveryParameters
    <2>2. ring[c] = <<>> /\ reader[c].read = 0
      BY <1>1, <1>3 DEF RecoveryCallerInv, Scanning
    <2>3. Rc!TailOf(c)' = <<>>
      BY <1>3, <2>2 DEF Rc!TailOf
    <2> QED  BY <1>2, <1>3, <1>4, <2>1, <2>2, <2>3 DEF HasRead
  <1>6. RecoveryCallerInv(c)'
    <2>1. reader[c].read = 0 /\ Blank(c)
      BY <1>1, <1>3 DEF RecoveryCallerInv, Scanning
    <2>2. 0 <= Len(transcript.lines)
      BY <1>1 DEF Files
    <2> QED  BY <1>1, <1>2, <1>3, <1>4, <1>5, <2>1, <2>2
             DEF RecoveryCallerInv, Opening, Scanning, Searching, Publishing, Blank, Files
  <1> QED  BY <1>2, <1>3, <1>6, CallerMoves

LEMMA ReadLineKeeps ==
    ASSUME RecoveryParameters, RecoveryInv, NEW c \in Caller, Rc!ReadLine(c)
    PROVE  RecoveryInv'
  <1> DEFINE i == reader[c].read + 1
             r == [reader[c] EXCEPT !.read = i]
             line == Rc!Opened(c).lines[i]
             t == Rc!Push(ring[c], line)
             a == answers[c]
  <1>1. /\ reader[c] \in Readers /\ RecoveryCallerInv(c) /\ transcript \in Files
        /\ ring[c] \in Seq(Retained) /\ Len(ring[c]) <= LineLimit
    BY DEF RecoveryInv, RecoveryTypeInv
  <1>2. reader[c].pc = "scan" /\ i <= Len(Rc!Opened(c).lines)
    BY DEF Rc!ReadLine
  <1>3. Rc!Opened(c) \in Files /\ (Rc!Unchanged(c) => Rc!Opened(c) = transcript)
    BY <1>1 DEF Rc!Opened, RecoveryCallerInv, Opening, Rc!Unchanged
  <1>4. line \in Lines /\ i \in 1 .. Len(Rc!Opened(c).lines) /\ i \in Nat
    BY <1>1, <1>2, <1>3 DEF Files, Readers
  <1>5. /\ r \in Readers /\ r.pc = "scan" /\ r.read = i /\ r.ino = reader[c].ino
        /\ r.version = reader[c].version /\ r.found = reader[c].found
        /\ r.unverified = reader[c].unverified /\ r.incomplete = reader[c].incomplete
    BY <1>1, <1>2, <1>4 DEF Readers
  <1>6. /\ reader' = [reader EXCEPT ![c] = r] /\ ring' = [ring EXCEPT ![c] = t]
        /\ UNCHANGED <<transcript, former, contents, copy, snapshot, answers>>
    BY DEF Rc!ReadLine, Rc!source, RecoveryInv, RecoveryTypeInv
  <1>7. /\ t \in Seq(Retained) /\ Len(t) <= LineLimit
        /\ [k \in DOMAIN t |-> t[k].line] =
             Append(IF Len(Rc!TailOf(c)) = LineLimit THEN Tail(Rc!TailOf(c)) ELSE Rc!TailOf(c), line)
    BY <1>1, <1>4, Pushed DEF Rc!TailOf
  <1> HIDE DEF r, t
  <1>8. reader'[c] = r /\ ring'[c] = t
    BY <1>6 DEF RecoveryInv, RecoveryTypeInv
  <1>9. Rc!TailOf(c)' = Append(IF Len(Rc!TailOf(c)) = LineLimit THEN Tail(Rc!TailOf(c)) ELSE Rc!TailOf(c), line)
    BY <1>7, <1>8 DEF Rc!TailOf
  <1>10. ASSUME Rc!Unchanged(c)
         PROVE  i <= Len(transcript.lines) /\ HasRead(c, SubSeq(transcript.lines, 1,
         reader[c].read))'
    <2>1. line = transcript.lines[i] /\ i \in 1 .. Len(transcript.lines)
      BY <1>3, <1>4, <1>10
    <2>2. Rc!TailOf(c) = Ending(SubSeq(transcript.lines, 1, i - 1))
      <3>1. i - 1 = reader[c].read
        BY <1>1 DEF Readers
      <3> QED  BY <1>1, <1>2, <1>10, <3>1 DEF RecoveryCallerInv, Scanning, HasRead
    <2>3. Rc!TailOf(c)' = Ending(SubSeq(transcript.lines, 1, i))
      BY <1>1, <1>9, <2>1, <2>2, EndingGrows DEF Files
    <2>4. Len(SubSeq(transcript.lines, 1, i)) = i
      BY <1>1, <2>1 DEF Files
    <2>5. reader'[c].read = i /\ transcript' = transcript
      BY <1>5, <1>6, <1>8
    <2> HIDE DEF i
    <2>6. SubSeq(transcript.lines, 1, reader[c].read)' = SubSeq(transcript.lines, 1, i)
      BY <2>5
    <2>7. Ending(SubSeq(transcript.lines, 1, reader[c].read))' = Ending(SubSeq(transcript.lines, 1, i))
      BY <2>6 DEF Ending, RecoveryKept
    <2> QED  BY <2>1, <2>3, <2>4, <2>5, <2>6, <2>7 DEF HasRead
  <1>11. RecoveryCallerInv(c)'
    <2>1. Rc!Unchanged(c)' <=> Rc!Unchanged(c)
      BY <1>5, <1>6, <1>8 DEF Rc!Unchanged
    <2>2. Blank(c)'
      BY <1>1, <1>2, <1>5, <1>8 DEF RecoveryCallerInv, Scanning, Blank
    <2> HIDE DEF i
    <2>3. Scanning(c)'
      BY <1>5, <1>6, <1>8, <1>10, <2>1, <2>2 DEF Scanning
    <2> QED  BY <1>1, <1>5, <1>6, <1>8, <2>3 DEF RecoveryCallerInv, Opening, Searching, Publishing
  <1>12. /\ a # None => Holds(a)
         /\ answers' = [answers EXCEPT ![c] = a]
    BY <1>6 DEF RecoveryInv, RecoveryTypeInv, Rc!RecoveryIsTrue, Holds
  <1>13. /\ CopyKept
         /\ copy' # None => copy' \in Rc!Copies
    BY <1>6 DEF RecoveryInv, RecoveryTypeInv, CopyKept
  <1> HIDE DEF a
  <1> QED  BY <1>5, <1>6, <1>7, <1>11, <1>12, <1>13, RecoveryCallerKeeps

\* The scan ends with the whole of an unchanged file.
LEMMA ScanEnds ==
    ASSUME RecoveryParameters, RecoveryInv, NEW c \in Caller, reader[c].pc = "scan",
    Rc!Unchanged(c),
           reader[c].read >= Len(Rc!Opened(c).lines)
    PROVE  HasRead(c, transcript.lines)
  <1>1. reader[c] \in Readers /\ RecoveryCallerInv(c) /\ transcript \in Files
    BY DEF RecoveryInv, RecoveryTypeInv
  <1>2. Rc!Opened(c) = transcript
    BY DEF Rc!Opened, Rc!Unchanged
  <1>3. Len(transcript.lines) \in Nat /\ transcript.lines \in Seq(Lines) /\ reader[c].read \in Nat
    BY <1>1 DEF Files, Readers
  <1>4. reader[c].read = Len(transcript.lines)
    BY <1>1, <1>2, <1>3 DEF RecoveryCallerInv, Scanning
  <1>5. SubSeq(transcript.lines, 1, Len(transcript.lines)) = transcript.lines
    BY <1>3
  <1> QED  BY <1>1, <1>4, <1>5 DEF RecoveryCallerInv, Scanning

LEMMA VerifyScanKeeps ==
    ASSUME RecoveryParameters, RecoveryInv, NEW c \in Caller, Rc!VerifyScan(c)
    PROVE  RecoveryInv'
  <1>1. UNCHANGED <<transcript, former, contents, ring, copy, snapshot>> /\ reader[c].pc = "scan"
    BY DEF Rc!VerifyScan, Rc!source
  <1>2. CASE Rc!Fails(c)
    BY <1>1, <1>2, CallerEnds DEF Rc!Fails
  <1>3. CASE ~ Rc!Fails(c)
    <2> DEFINE l == IF Rc!Missing(c) # {} /\ Rc!Truncated(c) THEN "prefix" ELSE "copy"
               r == [reader[c] EXCEPT !.pc = l]
    <2>1. Rc!Unchanged(c) /\ reader[c].read >= Len(Rc!Opened(c).lines) /\ Rc!Goto(c, l) /\ UNCHANGED answers
      BY <1>3 DEF Rc!VerifyScan
    <2>2. HasRead(c, transcript.lines)
      BY <1>1, <2>1, ScanEnds
    <2>3. reader[c] \in Readers /\ RecoveryCallerInv(c) /\ RecoveryTypeInv /\ transcript.lines \in contents /\ Blank(c)
      BY <1>1 DEF RecoveryInv, RecoveryTypeInv, RecoveryCallerInv, Scanning
    <2>4. /\ r \in Readers /\ r.pc = l /\ r.read = reader[c].read /\ r.ino = reader[c].ino
          /\ r.version = reader[c].version /\ r.found = reader[c].found
          /\ r.unverified = reader[c].unverified /\ r.incomplete = reader[c].incomplete
      BY <2>3 DEF Readers, Steps
    <2>5. l # "prefix" => Holds(Rc!Given(c))
      BY <2>2, <2>3, WholeIsTrue
    <2>6. l \in {"prefix", "copy"} /\ (l = "prefix" => Rc!Truncated(c))
      OBVIOUS
    <2>7. reader' = [reader EXCEPT ![c] = r]
      BY <2>1 DEF Rc!Goto, RecoveryInv, RecoveryTypeInv
    <2> HIDE DEF l, r
    <2>8. reader'[c] = r
      BY <2>7 DEF RecoveryInv, RecoveryTypeInv
    <2>9. /\ Rc!TailOf(c)' = Rc!TailOf(c) /\ Rc!Given(c)' = Rc!Given(c)
          /\ Rc!Truncated(c)' <=> Rc!Truncated(c)
          /\ Blank(c)'
      BY <1>1, <2>3, <2>4, <2>8, SameGiven DEF Rc!Truncated, Blank
    <2>10. RecoveryCallerInv(c)'
      BY <1>1, <2>1, <2>2, <2>3, <2>4, <2>5, <2>6, <2>8, <2>9
         DEF RecoveryCallerInv, Opening, Scanning, Searching, Publishing, HasRead, Holds
    <2> QED  BY <1>1, <2>1, <2>4, <2>7, <2>10, CallerMoves
  <1> QED  BY <1>2, <1>3

LEMMA ScanPrefixKeeps ==
    ASSUME RecoveryParameters, RecoveryInv, NEW c \in Caller, Rc!ScanPrefix(c)
    PROVE  RecoveryInv'
  <1> DEFINE lines == Rc!Opened(c).lines
             omitted == SubSeq(lines, 1, Rc!Min({Len(lines), reader[c].read - LineLimit}))
             f == Rc!Missing(c) \cap Rc!Ids(omitted)
             u == (Rc!Missing(c) \cap Rc!Cut(omitted)) \ Rc!Ids(omitted)
             r == [reader[c] EXCEPT !.pc = "reverify", !.found = f, !.unverified = u]
  <1>1. reader[c] \in Readers /\ RecoveryCallerInv(c) /\ transcript \in Files
    BY DEF RecoveryInv, RecoveryTypeInv
  <1>2. f \subseteq Parents /\ u \subseteq Parents
    BY DEF Rc!Missing, Parents
  <1>3. /\ reader[c].pc = "prefix" /\ reader' = [reader EXCEPT ![c] = r]
        /\ UNCHANGED <<transcript, former, contents, ring, copy, snapshot, answers>>
    BY DEF Rc!ScanPrefix, Rc!source, RecoveryInv, RecoveryTypeInv
  <1>4. Rc!Unchanged(c) => omitted = Omitted(transcript.lines)
    <2> SUFFICES ASSUME Rc!Unchanged(c)
                 PROVE  omitted = Omitted(transcript.lines)
      OBVIOUS
    <2>1. lines = transcript.lines
      BY DEF Rc!Opened, Rc!Unchanged
    <2>2. /\ reader[c].read = Len(transcript.lines) /\ Len(transcript.lines) \in Nat
          /\ LineLimit \in Nat
      BY <1>1, <1>3 DEF RecoveryCallerInv, Searching, HasRead, Files, RecoveryParameters
    <2>3. Rc!Min({Len(lines), reader[c].read - LineLimit}) = Len(lines) - LineLimit
      BY <2>1, <2>2, MinOfTwo
    <2> QED  BY <2>1, <2>3 DEF Omitted
  <1> HIDE DEF omitted
  <1>5. (Rc!Unchanged(c) => f = Rc!Missing(c) \cap Rc!Ids(Omitted(transcript.lines)))
        /\ (Rc!Unchanged(c) => u = (Rc!Missing(c) \cap Rc!Cut(Omitted(transcript.lines)))
                                \ Rc!Ids(Omitted(transcript.lines)))
    BY <1>4
  <1> HIDE DEF f, u
  <1>6. /\ r \in Readers /\ r.pc = "reverify" /\ r.read = reader[c].read /\ r.ino = reader[c].ino
        /\ r.version = reader[c].version /\ r.found = f /\ r.unverified = u
        /\ r.incomplete = reader[c].incomplete
    BY <1>1, <1>2 DEF Readers, Steps
  <1> HIDE DEF r
  <1>7. reader'[c] = r
    BY <1>3 DEF RecoveryInv, RecoveryTypeInv
  <1>8. Rc!TailOf(c)' = Rc!TailOf(c)
    BY <1>3 DEF Rc!TailOf
  <1>9. Rc!Missing(c)' = Rc!Missing(c)
    BY <1>8 DEF Rc!Missing
  <1>10. Rc!Unchanged(c)' <=> Rc!Unchanged(c)
    BY <1>3, <1>6, <1>7 DEF Rc!Unchanged
  <1>11. Rc!Truncated(c) /\ Blank(c) /\ (Rc!Unchanged(c) => HasRead(c, transcript.lines))
    BY <1>1, <1>3 DEF RecoveryCallerInv, Searching
  <1>12. Searching(c)'
    <2>1. Rc!Truncated(c)' /\ ~ reader'[c].incomplete /\ reader'[c].pc = "reverify"
      BY <1>6, <1>7, <1>11 DEF Rc!Truncated, Blank
    <2>2. transcript' = transcript /\ reader'[c].read = reader[c].read
      BY <1>3, <1>6, <1>7
    <2>3. HasRead(c, transcript.lines) => HasRead(c, transcript.lines)'
      BY <1>8, <2>2 DEF HasRead, Ending, RecoveryKept
    <2>4. /\ Rc!Ids(Omitted(transcript.lines))' = Rc!Ids(Omitted(transcript.lines))
          /\ Rc!Cut(Omitted(transcript.lines))' = Rc!Cut(Omitted(transcript.lines))
      BY <2>2 DEF Rc!Ids, Rc!Cut, Omitted
    <2>5. reader'[c].found = f /\ reader'[c].unverified = u
      BY <1>6, <1>7
    <2> QED  BY <1>5, <1>9, <1>10, <1>11, <2>1, <2>3, <2>4, <2>5 DEF Searching
  <1>13. RecoveryCallerInv(c)'
    BY <1>1, <1>3, <1>6, <1>7, <1>12 DEF RecoveryCallerInv, Opening, Scanning, Publishing
  <1> QED  BY <1>3, <1>6, <1>13, CallerMoves

LEMMA PrefixFailsKeeps ==
    ASSUME RecoveryParameters, RecoveryInv, NEW c \in Caller, Rc!PrefixFails(c)
    PROVE  RecoveryInv'
  <1> DEFINE r == [reader[c] EXCEPT !.pc = "copy", !.incomplete = TRUE]
  <1>1. reader[c] \in Readers /\ RecoveryCallerInv(c) /\ RecoveryTypeInv
    BY DEF RecoveryInv, RecoveryTypeInv
  <1>2. /\ reader[c].pc = "prefix" /\ reader' = [reader EXCEPT ![c] = r]
        /\ UNCHANGED <<transcript, former, contents, ring, copy, snapshot, answers>>
    BY DEF Rc!PrefixFails, Rc!source, RecoveryInv, RecoveryTypeInv
  <1>3. /\ r \in Readers /\ r.pc = "copy" /\ r.read = reader[c].read /\ r.ino = reader[c].ino
        /\ r.version = reader[c].version /\ r.found = reader[c].found
        /\ r.unverified = reader[c].unverified /\ r.incomplete
    BY <1>1 DEF Readers, Steps
  <1> HIDE DEF r
  <1>4. reader'[c] = r
    BY <1>2 DEF RecoveryInv, RecoveryTypeInv
  <1>5. Holds(Rc!Given(c))'
    <2>1. PICK lines \in contents: HasRead(c, lines)
      BY <1>1, <1>2 DEF RecoveryCallerInv, Searching
    <2>2. Rc!TailOf(c) = Rc!LastLines(lines)
      BY <1>1, <2>1, AllRead
    <2>3. reader'[c].found = {}
      BY <1>1, <1>2, <1>3, <1>4 DEF RecoveryCallerInv, Searching, Blank
    <2>4. Rc!TailOf(c)' = Rc!LastLines(lines) /\ lines \in contents'
      BY <1>2, <2>2 DEF Rc!TailOf
    <2>5. \A m: Rc!Verdict(c, m)' \notin {"outside", "broken"}
      BY <1>3, <1>4, <2>3 DEF Rc!Verdict
    <2>6. Rc!Given(c)'.tail = Rc!LastLines(lines)
      BY <2>4 DEF Rc!Given
    <2>7. ASSUME NEW verdict \in Rc!Given(c)'.chain
          PROVE  verdict[2] \notin {"outside", "broken"}
      <3>1. PICK m \in Rc!Missing(c)': verdict = <<m, Rc!Verdict(c, m)'>>
        BY <2>7 DEF Rc!Given
      <3> QED  BY <2>5, <3>1
    <2>8. Rc!Given(c)'.tail = Rc!LastLines(lines)
             /\ \A verdict \in Rc!Given(c)'.chain:
                  /\ verdict[2] = "outside" => verdict[1] \in Rc!Ids(lines)
                  /\ verdict[2] = "broken" => verdict[1] \notin Rc!Ids(lines) \cup Rc!Cut(lines)
      BY <2>6, <2>7
    <2> QED  BY <2>4, <2>8 DEF Holds
  <1>6. RecoveryCallerInv(c)'
    BY <1>1, <1>2, <1>3, <1>4, <1>5 DEF RecoveryCallerInv, Opening, Scanning, Searching,
                                        Publishing
  <1> QED  BY <1>2, <1>3, <1>6, CallerMoves

LEMMA VerifyPrefixKeeps ==
    ASSUME RecoveryParameters, RecoveryInv, NEW c \in Caller, Rc!VerifyPrefix(c)
    PROVE  RecoveryInv'
  <1>1. UNCHANGED <<transcript, former, contents, ring, copy, snapshot>> /\ reader[c].pc = "reverify"
    BY DEF Rc!VerifyPrefix, Rc!source
  <1>2. CASE Rc!Fails(c)
    BY <1>1, <1>2, CallerEnds DEF Rc!Fails
  <1>3. CASE ~ Rc!Fails(c)
    <2> DEFINE r == [reader[c] EXCEPT !.pc = "copy"]
    <2>1. Rc!Unchanged(c) /\ Rc!Goto(c, "copy") /\ UNCHANGED answers
      BY <1>3 DEF Rc!VerifyPrefix
    <2>2. reader[c] \in Readers /\ RecoveryCallerInv(c) /\ RecoveryTypeInv /\ transcript.lines \in contents
      BY DEF RecoveryInv, RecoveryTypeInv
    <2>3. Holds(Rc!Given(c))
      BY <1>1, <2>1, <2>2, SearchedIsTrue DEF RecoveryCallerInv, Searching
    <2>4. /\ r \in Readers /\ r.pc = "copy" /\ r.read = reader[c].read /\ r.ino = reader[c].ino
          /\ r.version = reader[c].version /\ r.found = reader[c].found
          /\ r.unverified = reader[c].unverified /\ r.incomplete = reader[c].incomplete
      BY <2>2 DEF Readers, Steps
    <2>5. reader' = [reader EXCEPT ![c] = r]
      BY <2>1 DEF Rc!Goto, RecoveryInv, RecoveryTypeInv
    <2> HIDE DEF r
    <2>6. reader'[c] = r
      BY <2>5 DEF RecoveryInv, RecoveryTypeInv
    <2>7. Rc!Given(c)' = Rc!Given(c)
      BY <1>1, <2>4, <2>6, SameGiven
    <2>8. RecoveryCallerInv(c)'
      BY <1>1, <2>2, <2>3, <2>4, <2>6, <2>7
         DEF RecoveryCallerInv, Opening, Scanning, Searching, Publishing, Holds
    <2> QED  BY <1>1, <2>1, <2>4, <2>5, <2>8, CallerMoves
  <1> QED  BY <1>2, <1>3

-----------------------------------------------------------------------------
(* The copy and the snapshot.                                              *)

\* What a call has read stays what it will give while it publishes.
LEMMA Publishes ==
    ASSUME RecoveryInv, NEW c \in Caller, NEW l \in {"copy", "fill", "snapshot", "write", "seal"},
           reader[c].pc \in {"copy", "fill", "snapshot", "write"}, Rc!Goto(c, l),
           UNCHANGED <<transcript, former, contents, ring>>, 
           l = "fill" => copy' # None /\ copy'.tail = Rc!TailOf(c),
           l \in {"snapshot", "write",
           "seal"} => copy' # None /\ copy'.whole /\ copy'.tail = Rc!TailOf(c),
           l = "seal" => SnapshotFits',
           CopyKept, copy' # None => copy' \in Rc!Copies,
           snapshot' = snapshot \/ SnapshotFits', UNCHANGED answers
    PROVE  RecoveryInv'
  <1> DEFINE r == [reader[c] EXCEPT !.pc = l]
             t == ring[c]
             a == answers[c]
  <1>1. reader[c] \in Readers /\ RecoveryCallerInv(c)
    BY DEF RecoveryInv, RecoveryTypeInv
  <1>2. /\ r \in Readers /\ r.pc = l /\ r.read = reader[c].read /\ r.ino = reader[c].ino
        /\ r.version = reader[c].version /\ r.found = reader[c].found
        /\ r.unverified = reader[c].unverified /\ r.incomplete = reader[c].incomplete
    BY <1>1 DEF Readers, Steps
  <1>3. reader' = [reader EXCEPT ![c] = r]
    BY DEF Rc!Goto, RecoveryInv, RecoveryTypeInv
  <1> HIDE DEF r
  <1>4. reader'[c] = r
    BY <1>3 DEF RecoveryInv, RecoveryTypeInv
  <1>5. Rc!TailOf(c)' = Rc!TailOf(c) /\ Rc!Given(c)' = Rc!Given(c)
    BY <1>2, <1>4, SameGiven
  <1>6. Publishing(c)'
    <2>1. Holds(Rc!Given(c))'
      BY <1>1, <1>5 DEF RecoveryCallerInv, Publishing, Holds
    <2> QED  BY <1>2, <1>4, <1>5, <2>1 DEF Publishing, Copied
  <1>7. RecoveryCallerInv(c)'
    BY <1>1, <1>2, <1>4, <1>6 DEF RecoveryCallerInv, Opening, Scanning, Searching
  <1>8. /\ t \in Seq(Retained) /\ Len(t) <= LineLimit
        /\ ring' = [ring EXCEPT ![c] = t]
    BY DEF RecoveryInv, RecoveryTypeInv
  <1>9. /\ a # None => Holds(a)
        /\ answers' = [answers EXCEPT ![c] = a]
    BY DEF RecoveryInv, RecoveryTypeInv, Rc!RecoveryIsTrue, Holds
  <1> HIDE DEF t, a
  <1> QED  BY <1>2, <1>3, <1>7, <1>8, <1>9, RecoveryCallerKeeps

LEMMA CreateCopyKeeps ==
    ASSUME RecoveryParameters, RecoveryInv, NEW c \in Caller, Rc!CreateCopy(c)
    PROVE  RecoveryInv' /\ CopyKept
  <1>1. UNCHANGED <<transcript, former, contents, ring, snapshot>> /\ reader[c].pc = "copy"
    BY DEF Rc!CreateCopy, Rc!source
  <1>2. RecoveryTypeInv /\ Rc!TailOf(c) \in Seq(Lines)
    <2>1. ring[c] \in Seq(Retained)
      BY DEF RecoveryInv, RecoveryTypeInv
    <2>2. \A k \in Retained: k.line \in Lines
      BY DEF Retained
    <2>3. DOMAIN ring[c] = 1 .. Len(ring[c]) /\ Len(ring[c]) \in Nat /\ \A k \in 1 .. Len(ring[c]): ring[c][k].line \in Lines
      BY <2>1, <2>2, Entry
    <2> QED  BY <2>3 DEF RecoveryInv, Rc!TailOf
  <1>3. CASE copy = None
    <2>1. /\ copy' = [tail |-> Rc!TailOf(c), whole |-> FALSE] /\ Rc!Goto(c, "fill") /\ UNCHANGED answers
      BY <1>3 DEF Rc!CreateCopy
    <2>2. copy' \in Rc!Copies /\ copy' # None /\ copy'.tail = Rc!TailOf(c)
      <3>1. copy' \in Rc!Copies /\ copy'.tail = Rc!TailOf(c)
        BY <1>2, <2>1 DEF Rc!Copies
      <3> QED  BY <3>1 DEF RecoveryParameters, Rc!NoneFits
    <2> QED  BY <1>1, <1>3, <2>1, <2>2, Publishes DEF CopyKept
  <1>4. CASE copy # None
    <2>1. UNCHANGED copy /\ CopyKept /\ (copy' # None => copy' \in Rc!Copies)
      BY <1>2, <1>4 DEF Rc!CreateCopy, CopyKept, RecoveryTypeInv
    <2>2. CASE Rc!Fails(c)
      BY <1>1, <2>1, <2>2, CallerEnds DEF Rc!Fails
    <2>3. CASE ~ Rc!Fails(c)
      <3>1. Rc!CopyIsMine(c) /\ Rc!Goto(c, "snapshot") /\ UNCHANGED answers
        BY <1>4, <2>3 DEF Rc!CreateCopy
      <3> QED  BY <1>1, <1>4, <2>1, <3>1, Publishes DEF Rc!CopyIsMine
    <2> QED  BY <2>2, <2>3
  <1> QED  BY <1>3, <1>4

LEMMA FillCopyKeeps ==
    ASSUME RecoveryParameters, RecoveryInv, NEW c \in Caller, Rc!FillCopy(c)
    PROVE  RecoveryInv' /\ CopyKept
  <1>1. /\ UNCHANGED <<transcript, former, contents, ring, snapshot, answers>>
        /\ reader[c].pc = "fill" /\ copy' = [copy EXCEPT !.whole = TRUE] /\ Rc!Goto(c, "snapshot")
    BY DEF Rc!FillCopy, Rc!source
  <1>2. copy # None /\ copy.tail = Rc!TailOf(c) /\ copy \in Rc!Copies
    BY <1>1 DEF RecoveryInv, RecoveryTypeInv, RecoveryCallerInv, Publishing
  <1>3. copy' \in Rc!Copies /\ copy' # None /\ copy'.tail = copy.tail /\ copy'.whole
    BY <1>1, <1>2 DEF Rc!Copies, RecoveryParameters, Rc!NoneFits
  <1> QED  BY <1>1, <1>2, <1>3, Publishes DEF CopyKept

LEMMA LookForSnapshotKeeps ==
    ASSUME RecoveryParameters, RecoveryInv, NEW c \in Caller, Rc!LookForSnapshot(c)
    PROVE  RecoveryInv'
  <1>1. UNCHANGED <<transcript, former, contents, ring, copy, snapshot>> /\ reader[c].pc = "snapshot"
    BY DEF Rc!LookForSnapshot, Rc!source
  <1>2. CASE Rc!Fails(c)
    BY <1>1, <1>2, CallerEnds DEF Rc!Fails
  <1>3. CASE snapshot = None
    <2>1. Rc!Goto(c, "write") /\ UNCHANGED answers
      BY <1>3 DEF Rc!LookForSnapshot
    <2>2. Copied(c) /\ CopyKept /\ (copy' # None => copy' \in Rc!Copies)
      BY <1>1 DEF RecoveryInv, RecoveryTypeInv, RecoveryCallerInv, Publishing, CopyKept
    <2> QED  BY <1>1, <2>1, <2>2, Publishes DEF Copied
  <1>4. CASE snapshot # None /\ ~ Rc!Fails(c)
    <2>1. Rc!Answers(c, snapshot.given)
      BY <1>4 DEF Rc!LookForSnapshot
    <2>2. Holds(snapshot.given)
      BY <1>4 DEF RecoveryInv, SnapshotFits
    <2> QED  BY <1>1, <2>1, <2>2, CallerEnds
  <1> QED  BY <1>2, <1>3, <1>4

LEMMA WriteSnapshotKeeps ==
    ASSUME RecoveryParameters, RecoveryInv, NEW c \in Caller, Rc!WriteSnapshot(c)
    PROVE  RecoveryInv' /\ SnapshotFits'
  <1>1. /\ UNCHANGED <<transcript, former, contents, ring, copy, answers>>
        /\ reader[c].pc = "write" /\ Rc!Goto(c, "seal")
        /\ snapshot' = [tail |-> Rc!TailOf(c), sealed |-> Rc!Sealed, given |-> Rc!Given(c)]
    BY DEF Rc!WriteSnapshot, Rc!source
  <1>2. Copied(c) /\ Holds(Rc!Given(c)) /\ CopyKept /\ (copy' # None => copy' \in Rc!Copies)
    BY <1>1 DEF RecoveryInv, RecoveryTypeInv, RecoveryCallerInv, Publishing, CopyKept
  <1>3. SnapshotFits'
    BY <1>1, <1>2 DEF SnapshotFits, Copied, Holds
  <1> QED  BY <1>1, <1>2, <1>3, Publishes DEF Copied

LEMMA SealSnapshotKeeps ==
    ASSUME RecoveryParameters, RecoveryInv, NEW c \in Caller, Rc!SealSnapshot(c)
    PROVE  RecoveryInv' /\ SnapshotFits'
  <1> DEFINE t == ring[c]
             a == Rc!Given(c)
             r == [reader[c] EXCEPT !.pc = "done"]
  <1>1. /\ UNCHANGED <<transcript, former, contents, ring, copy>>
        /\ reader[c].pc = "seal" /\ snapshot' = [snapshot EXCEPT !.sealed = TRUE]
        /\ reader' = [reader EXCEPT ![c] = r] /\ answers' = [answers EXCEPT ![c] = a]
    BY DEF Rc!SealSnapshot, Rc!source, Rc!Answers, Rc!Goto, RecoveryInv, RecoveryTypeInv
  <1>2. /\ reader[c] \in Readers /\ Opening(c) /\ SnapshotFits /\ Holds(a) /\ CopyKept
        /\ copy' # None => copy' \in Rc!Copies
    BY <1>1 DEF RecoveryInv, RecoveryTypeInv, RecoveryCallerInv, Publishing, CopyKept
  <1>3. SnapshotFits'
    <2>1. snapshot' = [tail |-> snapshot.tail, sealed |-> TRUE, given |-> snapshot.given]
      BY <1>1, <1>2 DEF SnapshotFits
    <2> QED  BY <1>1, <1>2, <2>1 DEF SnapshotFits, Holds
  <1>4. r \in Readers /\ r.pc = "done" /\ r.ino = reader[c].ino /\ r.version = reader[c].version
    BY <1>2 DEF Readers, Steps
  <1>5. /\ t \in Seq(Retained) /\ Len(t) <= LineLimit
        /\ ring' = [ring EXCEPT ![c] = t]
    BY <1>1 DEF RecoveryInv, RecoveryTypeInv
  <1> HIDE DEF t, r, a
  <1>6. reader'[c] = r
    BY <1>1 DEF RecoveryInv, RecoveryTypeInv
  <1>7. RecoveryCallerInv(c)'
    BY <1>1, <1>2, <1>4, <1>6 DEF RecoveryCallerInv, Opening, Scanning, Searching, Publishing
  <1> QED  BY <1>1, <1>2, <1>3, <1>4, <1>5, <1>7, RecoveryCallerKeeps

-----------------------------------------------------------------------------
LEMMA RecoveryKillKeeps ==
    ASSUME RecoveryInv, NEW c \in Caller, Rc!Kill(c)
    PROVE  RecoveryInv'
  <1> DEFINE r == [reader[c] EXCEPT !.pc = "done"]
  <1>1. /\ UNCHANGED <<transcript, former, contents, ring, copy, snapshot, answers>>
        /\ reader' = [reader EXCEPT ![c] = r]
    BY DEF Rc!Kill, Rc!Goto, Rc!source, RecoveryInv, RecoveryTypeInv
  <1>2. reader[c] \in Readers /\ Opening(c)
    BY DEF RecoveryInv, RecoveryTypeInv, RecoveryCallerInv
  <1>3. r \in Readers /\ r.pc = "done" /\ r.ino = reader[c].ino /\ r.version = reader[c].version
    BY <1>2 DEF Readers, Steps
  <1> HIDE DEF r
  <1>4. reader'[c] = r
    BY <1>1 DEF RecoveryInv, RecoveryTypeInv
  <1>5. RecoveryCallerInv(c)'
    BY <1>1, <1>2, <1>3, <1>4 DEF RecoveryCallerInv, Opening, Scanning, Searching, Publishing
  <1> QED  BY <1>1, <1>3, <1>5, CallerMoves

\* A change of the transcript is seen by every call that began before it.
LEMMA ChangeKeeps ==
    ASSUME RecoveryInv, Rc!Change
    PROVE  RecoveryInv'
  <1>1. UNCHANGED <<ring, reader, copy, snapshot, answers>>
    BY DEF Rc!Change
  <1>0. PICK line \in Lines: \E lines \in {Append(transcript.lines, line), <<line>>}:
           /\ contents' = contents \cup {lines}
           /\ \/ /\ transcript' = [transcript EXCEPT !.version = @ + 1, !.lines = lines]
                 /\ UNCHANGED former
              \/ /\ former = None
                 /\ former' = transcript
                 /\ transcript' = [ino |-> transcript.ino + 1, version |-> transcript.version + 1,
                                   lines |-> lines]
    BY DEF Rc!Change
  <1>2. PICK lines \in {Append(transcript.lines, line), <<line>>}:
           /\ contents' = contents \cup {lines}
           /\ \/ /\ transcript' = [transcript EXCEPT !.version = @ + 1, !.lines = lines]
                 /\ UNCHANGED former
              \/ /\ former = None
                 /\ former' = transcript
                 /\ transcript' = [ino |-> transcript.ino + 1, version |-> transcript.version + 1,
                                   lines |-> lines]
    BY <1>0
  <1>3. transcript \in Files /\ transcript.lines \in Seq(Lines)
    BY DEF RecoveryInv, RecoveryTypeInv, Files
  <1>4. lines \in Seq(Lines) \ {<<>>}
    <2>1. Append(transcript.lines, line) \in Seq(Lines) /\ Len(Append(transcript.lines, line)) # 0
      BY <1>3
    <2>2. <<line>> \in Seq(Lines) /\ Len(<<line>>) # 0
      OBVIOUS
    <2>3. Len(<<>>) = 0
      OBVIOUS
    <2>4. lines = Append(transcript.lines, line) \/ lines = <<line>>
      BY <1>2
    <2> QED  BY <2>1, <2>2, <2>3, <2>4
  <1>5. /\ transcript' \in Files /\ transcript'.lines = lines
        /\ transcript'.version = transcript.version + 1
        /\ \/ transcript'.ino = transcript.ino /\ former' = former
           \/ former' \in Files
    <2>1. CASE transcript' = [transcript EXCEPT !.version = @ + 1, !.lines = lines] /\ UNCHANGED former
      <3>1. transcript' = [ino |-> transcript.ino, version |-> transcript.version + 1, lines |-> lines]
        BY <1>3, <2>1 DEF Files
      <3>2. transcript.ino \in Nat /\ transcript.version + 1 \in Nat
        BY <1>3 DEF Files
      <3> QED  BY <1>4, <2>1, <3>1, <3>2 DEF Files
    <2>2. CASE /\ former' = transcript
               /\ transcript' = [ino |-> transcript.ino + 1, version |-> transcript.version + 1,
                                 lines |-> lines]
      <3>1. transcript.ino + 1 \in Nat /\ transcript.version + 1 \in Nat
        BY <1>3 DEF Files
      <3> QED  BY <1>3, <1>4, <2>2, <3>1 DEF Files
    <2> QED  BY <1>2, <2>1, <2>2
  <1>6. RecoveryTypeInv'
    BY <1>1, <1>2, <1>4, <1>5 DEF RecoveryInv, RecoveryTypeInv
  <1>7. \A x: Holds(x) => Holds(x)'
    BY <1>2 DEF Holds
  <1>8. Rc!RecoveryIsTrue'
    <2>1. \A c \in Caller: answers[c] # None => Holds(answers[c])
      BY Zenon DEF RecoveryInv, Rc!RecoveryIsTrue, Holds
    <2>2. ASSUME NEW c \in Caller
          PROVE  (answers[c] # None => Holds(answers[c]))'
      <3>1. answers[c] # None => Holds(answers[c])
        BY <2>1
      <3> QED  BY <1>1, <1>2, <3>1 DEF Holds
    <2> QED  BY Zenon, <2>2 DEF Rc!RecoveryIsTrue, Holds
  <1>9. SnapshotFits => SnapshotFits'
    BY <1>1, <1>2 DEF SnapshotFits, Holds
  <1>10. ASSUME NEW c \in Caller
         PROVE  RecoveryCallerInv(c)'
    <2>1. RecoveryCallerInv(c) /\ reader[c] \in Readers
      BY DEF RecoveryInv, RecoveryTypeInv
    <2>2. ~ Rc!Unchanged(c)' /\ Opening(c)'
      BY <1>1, <1>3, <1>5, <2>1 DEF RecoveryCallerInv, Opening, Rc!Unchanged, Readers, Files
    <2>3. Rc!TailOf(c)' = Rc!TailOf(c) /\ Rc!Given(c)' = Rc!Given(c)
      BY <1>1, SameGiven
    <2>4. Scanning(c)' /\ Searching(c)'
      BY <1>1, <1>2, <2>1, <2>2, <2>3 DEF RecoveryCallerInv, Scanning, Searching, Blank,
                                          Rc!Truncated, HasRead
    <2>5. Publishing(c)'
      BY <1>1, <1>2, <1>9, <2>1, <2>3 DEF RecoveryCallerInv, Publishing, Copied, Holds
    <2> QED  BY <2>2, <2>4, <2>5 DEF RecoveryCallerInv
  <1> QED  BY <1>1, <1>6, <1>8, <1>9, <1>10 DEF RecoveryInv

LEMMA RecoveryStepKeeps ==
    ASSUME RecoveryParameters, RecoveryInv, [Rc!Next]_Rc!vars
    PROVE  RecoveryInv' /\ Rc!RecoveryIsImmutable
  <1>1. ASSUME SnapshotFits, CopyKept, UNCHANGED snapshot
        PROVE  Rc!RecoveryIsImmutable
    BY <1>1 DEF SnapshotFits, CopyKept, Rc!RecoveryIsImmutable
  <1>2. ASSUME SnapshotFits', CopyKept
        PROVE  Rc!RecoveryIsImmutable
    BY <1>2 DEF SnapshotFits, CopyKept, Rc!RecoveryIsImmutable
  <1>3. ASSUME UNCHANGED snapshot, CopyKept
        PROVE  Rc!RecoveryIsImmutable
    BY <1>1, <1>3 DEF RecoveryInv, CopyKept, Rc!RecoveryIsImmutable
  <1>4. ASSUME UNCHANGED <<copy, snapshot>>
        PROVE  Rc!RecoveryIsImmutable
    BY <1>3, <1>4 DEF CopyKept
  <1>5. CASE UNCHANGED Rc!vars
    <2>1. UNCHANGED <<transcript, former, contents, ring, reader, copy, snapshot, answers>>
      BY <1>5 DEF Rc!vars, Rc!source
    <2>2. ASSUME NEW c \in Caller
          PROVE  RecoveryCallerInv(c)'
      <3>1. RecoveryCallerInv(c)
        BY DEF RecoveryInv
      <3>2. Rc!TailOf(c)' = Rc!TailOf(c) /\ Rc!Missing(c)' = Rc!Missing(c) /\ Rc!Given(c)' = Rc!Given(c)
        BY <2>1, SameGiven
      <3>3. Opening(c)' /\ Scanning(c)' /\ Searching(c)'
        BY <2>1, <3>1, <3>2
           DEF RecoveryCallerInv, Opening, Scanning, Searching, Blank, HasRead, Rc!Unchanged,
               Rc!Truncated
      <3>4. Publishing(c)'
        BY <2>1, <3>1, <3>2 DEF RecoveryCallerInv, Publishing, Copied, SnapshotFits, Holds
      <3> QED  BY <3>3, <3>4 DEF RecoveryCallerInv
    <2> QED  BY <1>4, <2>1, <2>2 DEF RecoveryInv, RecoveryTypeInv, SnapshotFits, Holds,
                                     Rc!RecoveryIsTrue
  <1>6. CASE Rc!Change
    BY <1>4, <1>6, ChangeKeeps DEF Rc!Change
  <1>7. ASSUME NEW c \in Caller,
               \/ Rc!Open(c) \/ Rc!ReadLine(c) \/ Rc!VerifyScan(c) \/ Rc!ScanPrefix(c) \/ Rc!PrefixFails(c)
               \/ Rc!VerifyPrefix(c) \/ Rc!CopyRaced(c) \/ Rc!LookForSnapshot(c) \/ Rc!Kill(c)
        PROVE  RecoveryInv' /\ Rc!RecoveryIsImmutable
    <2>1. UNCHANGED <<copy, snapshot>>
      BY <1>7 DEF Rc!Open, Rc!ReadLine, Rc!VerifyScan, Rc!ScanPrefix, Rc!PrefixFails,
                  Rc!VerifyPrefix, Rc!CopyRaced,
                  Rc!LookForSnapshot, Rc!Kill
    <2>2. Rc!CopyRaced(c) => RecoveryInv'
      BY CallerEnds DEF Rc!CopyRaced, Rc!Fails, Rc!source
    <2> QED  BY <1>4, <1>7, <2>1, <2>2, OpenKeeps, ReadLineKeeps, VerifyScanKeeps,
                ScanPrefixKeeps,
                PrefixFailsKeeps, VerifyPrefixKeeps, LookForSnapshotKeeps, RecoveryKillKeeps
  <1>8. ASSUME NEW c \in Caller, Rc!CreateCopy(c) \/ Rc!FillCopy(c)
        PROVE  RecoveryInv' /\ Rc!RecoveryIsImmutable
    <2>1. UNCHANGED snapshot
      BY <1>8 DEF Rc!CreateCopy, Rc!FillCopy
    <2> QED  BY <1>3, <1>8, <2>1, CreateCopyKeeps, FillCopyKeeps
  <1>9. ASSUME NEW c \in Caller, Rc!WriteSnapshot(c) \/ Rc!SealSnapshot(c)
        PROVE  RecoveryInv' /\ Rc!RecoveryIsImmutable
    <2>1. CopyKept
      BY <1>9 DEF Rc!WriteSnapshot, Rc!SealSnapshot, CopyKept
    <2> QED  BY <1>2, <1>9, <2>1, WriteSnapshotKeeps, SealSnapshotKeeps
  <1> QED  BY <1>5, <1>6, <1>7, <1>8, <1>9 DEF Rc!Next

LEMMA RecoveryInvariance ==
    ASSUME RecoveryParameters PROVE Rc!Spec => []RecoveryInv
  <1>1. RecoveryInv /\ [Rc!Next]_Rc!vars => RecoveryInv'
    BY RecoveryStepKeeps
  <1> QED  BY <1>1, RecoveryInitially, PTL DEF Rc!Spec

\* What a recovery answers was the end of the transcript at one moment, and what it says of the
\* parents of its records is true of that content, however Cursor changes the file meanwhile and
\* whichever calls overlap, fail or are killed (recoverCursorSession, recovery/index.ts).
THEOREM RecoveryTruthful == ASSUME RecoveryParameters PROVE Rc!Spec => []Rc!RecoveryIsTrue
  <1>1. RecoveryInv => Rc!RecoveryIsTrue
    BY DEF RecoveryInv
  <1> QED  BY <1>1, RecoveryInvariance, PTL

\* A copy of a transcript never changes once it is whole, and the snapshot describes it
\* (publishing in recovery/index.ts).
THEOREM RecoveryImmutable ==
    ASSUME RecoveryParameters PROVE Rc!Spec => [][Rc!RecoveryIsImmutable]_Rc!vars
  <1>1. RecoveryInv /\ [Rc!Next]_Rc!vars => Rc!RecoveryIsImmutable
    BY RecoveryStepKeeps
  <1> QED  BY <1>1, RecoveryInvariance, PTL DEF Rc!Spec

-----------------------------------------------------------------------------
(* OwnerRecord.  What a repair has read does not parse, and until the user *)
(* edits the file it still is what is moved; a token is given only of a    *)
(* record that parses, which no repair moves.                              *)

\* What a process of the repair has read does not parse; what it is about to move it has just
\* read, unless the user replaced it.
Working(p) ==
    /\ process[p].pc = "link" => process[p].record \in Ow!Record /\ process[p].record.valid
    /\ process[p].pc \in {"confirm", "move"} => ~ Ow!Valid(process[p].record)
    /\ process[p].pc = "judge" =>
         /\ process[p].record =
              [seen |-> process[p].record.seen, moved |-> process[p].record.moved]
         /\ ~ Ow!Valid(process[p].record.seen)
    /\ ownerEdits = 0 =>
         /\ process[p].pc = "move" => owner = process[p].record
         /\ process[p].pc = "judge" => process[p].record.seen = process[p].record.moved

\* Until the user edits the file, who was given the authority has the token of a valid record.
Authorized ==
    ownerEdits = 0 =>
        \A p \in Process: authority[p] # None => Ow!Valid(owner) /\ owner.token = authority[p]

OwnerInv ==
    /\ Ow!TypeOK
    /\ process = [p \in Process |-> process[p]]
    /\ authority = [p \in Process |-> authority[p]]
    /\ created \in Nat /\ ownerEdits \in Nat
    /\ \A p \in Process: Working(p)
    /\ \A r \in aside: r.proven => ~ Ow!Valid(r.record)
    /\ Authorized

LEMMA OwnerImplied == ASSUME OwnerInv PROVE Ow!AuthorityKept
  BY DEF OwnerInv, Authorized, Ow!AuthorityKept, Ow!Valid

LEMMA OwnerInitially == ASSUME Ow!NoneFits, Ow!Init PROVE OwnerInv
  <1>1. \A p \in Process: process[p] = Ow!Idle /\ authority[p] = None
    BY DEF Ow!Init
  <1>2. Ow!TypeOK
    BY <1>1 DEF Ow!Init, Ow!TypeOK, Ow!NoneFits, Ow!Idle
  <1>3. \A p \in Process: Working(p)
    BY <1>1 DEF Working, Ow!Idle
  <1> QED  BY <1>1, <1>2, <1>3 DEF Ow!Init, OwnerInv, Authorized

\* A call that goes on or ends, while the lock keeps all others out.
LEMMA OwnerGoes ==
    ASSUME Ow!NoneFits, OwnerInv, NEW p \in Process, NEW l, NEW r,
           process[p].pc # "idle" \/ guard = None,
           process' = [process EXCEPT ![p] = [pc |-> l, record |-> r]],
           guard' = IF l = "idle" THEN None ELSE p,
           UNCHANGED ownerEdits, created' \in Nat,
           authority' = [q \in Process |-> authority'[q]],
           \A x \in aside': x.proven \in BOOLEAN /\ (x.proven => ~ Ow!Valid(x.record)),
           Working(p)', Authorized'
    PROVE  OwnerInv'
  <1>1. /\ process'[p] = [pc |-> l, record |-> r]
        /\ \A q \in Process: q # p => process'[q] = process[q] /\ process[q].pc = "idle"
    BY DEF OwnerInv, Ow!TypeOK, Ow!NoneFits
  <1>2. Ow!TypeOK'
    BY <1>1 DEF OwnerInv, Ow!TypeOK, Ow!NoneFits
  <1>3. ASSUME NEW q \in Process, q # p
        PROVE  Working(q)'
    BY <1>1, <1>3 DEF Working
  <1> QED  BY <1>1, <1>2, <1>3 DEF OwnerInv

\* In particular one that ends and leaves everything as it is.
LEMMA LeavesKeeps ==
    ASSUME Ow!NoneFits, OwnerInv, NEW p \in Process, process[p].pc # "idle", Ow!Leaves(p),
           UNCHANGED <<created, ownerEdits>>, authority' = [q \in Process |-> authority'[q]],
           \A x \in aside': x.proven \in BOOLEAN /\ (x.proven => ~ Ow!Valid(x.record)),
           Authorized'
    PROVE  OwnerInv'
  <1>1. process' = [process EXCEPT ![p] = [pc |-> "idle", record |-> None]] /\ guard' = None
    BY DEF Ow!Leaves, Ow!Idle
  <1>2. process'[p].pc = "idle"
    BY <1>1 DEF OwnerInv
  <1>3. Working(p)'
    BY <1>2 DEF Working
  <1>4. created' \in Nat
    BY DEF OwnerInv
  <1> QED  BY <1>1, <1>3, <1>4, OwnerGoes

LEMMA OwnerStepKeeps ==
    ASSUME Ow!NoneFits, OwnerInv, [Ow!Next]_Ow!vars
    PROVE  OwnerInv'
  <1> USE DEF Ow!Valid
  <1>0. /\ \A x \in aside: x.proven \in BOOLEAN /\ (x.proven => ~ Ow!Valid(x.record))
        /\ authority = [q \in Process |-> authority[q]]
        /\ process = [q \in Process |-> process[q]]
        /\ Authorized /\ created \in Nat /\ ownerEdits \in Nat
    BY DEF OwnerInv, Ow!TypeOK
  <1>1. CASE UNCHANGED Ow!vars
    BY <1>1 DEF Ow!vars, OwnerInv, Ow!TypeOK, Working, Authorized
  <1>2. ASSUME NEW p \in Process, Ow!Begin(p)
        PROVE  OwnerInv'
    <2>1. PICK l \in {"create", "repair"}: Ow!Step(p, l, None)
      BY <1>2 DEF Ow!Begin
    <2>2. guard = None /\ guard' = p /\ UNCHANGED <<owner, aside, authority, created, ownerEdits>>
      BY <1>2 DEF Ow!Begin
    <2>3. process' = [process EXCEPT ![p] = [pc |-> l, record |-> None]]
      BY <2>1 DEF Ow!Step
    <2>4. process'[p].pc = l
      BY <1>0, <2>3
    <2>5. Working(p)'
      BY <2>4 DEF Working
    <2>6. Authorized'
      BY <1>0, <2>2 DEF Authorized
    <2> QED  BY <1>0, <2>2, <2>3, <2>5, <2>6, OwnerGoes
  <1>3. ASSUME NEW p \in Process, Ow!Adopt(p)
        PROVE  OwnerInv'
    <2>1. /\ process[p].pc # "idle" /\ Ow!Leaves(p)
          /\ UNCHANGED <<owner, aside, created, ownerEdits>>
          /\ authority' =
               IF Ow!Valid(owner) THEN [authority EXCEPT ![p] = owner.token] ELSE authority
      BY <1>3 DEF Ow!Adopt, Ow!Given
    <2>2. authority' = [q \in Process |-> authority'[q]]
      BY <1>0, <2>1
    <2>3. Authorized'
      BY <1>0, <2>1 DEF Authorized
    <2> QED  BY <1>0, <2>1, <2>2, <2>3, LeavesKeeps
  <1>4. ASSUME NEW p \in Process, Ow!AdoptFails(p)
        PROVE  OwnerInv'
    <2>1. /\ process[p].pc # "idle" /\ Ow!Leaves(p)
          /\ UNCHANGED <<owner, aside, authority, created, ownerEdits>>
      BY <1>4 DEF Ow!AdoptFails
    <2>2. Authorized'
      BY <1>0, <2>1 DEF Authorized
    <2> QED  BY <1>0, <2>1, <2>2, LeavesKeeps
  <1>5. ASSUME NEW p \in Process, Ow!Absent(p)
        PROVE  OwnerInv'
    <2> DEFINE r == [ino |-> created, token |-> created, valid |-> TRUE]
    <2>1. /\ process[p].pc = "create" /\ created' = created + 1
          /\ process' = [process EXCEPT ![p] = [pc |-> "link", record |-> r]]
          /\ UNCHANGED <<owner, aside, guard, authority, ownerEdits>>
      BY <1>5 DEF Ow!Absent, Ow!Step
    <2>2. r \in Ow!Record /\ r.valid
      BY <1>0 DEF Ow!Record
    <2> HIDE DEF r
    <2>3. process'[p] = [pc |-> "link", record |-> r]
      BY <1>0, <2>1
    <2>4. Working(p)'
      BY <2>2, <2>3 DEF Working
    <2>5. Authorized'
      BY <1>0, <2>1 DEF Authorized
    <2>6. guard' = p /\ created' \in Nat
      BY <1>0, <2>1 DEF OwnerInv, Ow!TypeOK
    <2> QED  BY <1>0, <2>1, <2>4, <2>5, <2>6, OwnerGoes
  <1>6. ASSUME NEW p \in Process, Ow!CreateRecord(p)
        PROVE  OwnerInv'
    <2> DEFINE r == process[p].record
    <2>1. /\ process[p].pc = "link" /\ Ow!Leaves(p) /\ UNCHANGED <<aside, created, ownerEdits>>
          /\ owner = None => owner' = r /\ authority' = [authority EXCEPT ![p] = r.token]
          /\ owner # None => UNCHANGED <<owner, authority>>
      BY <1>6 DEF Ow!CreateRecord, Ow!Given
    <2>2. Ow!Valid(r)
      BY <2>1 DEF OwnerInv, Working, Ow!NoneFits
    <2> HIDE DEF r
    <2>3. authority' = [q \in Process |-> authority'[q]]
      BY <1>0, <2>1
    <2>4. Authorized'
      BY <1>0, <2>1, <2>2, <2>3 DEF Authorized
    <2> QED  BY <1>0, <2>1, <2>3, <2>4, LeavesKeeps
  <1>7. ASSUME NEW p \in Process, Ow!CreateUncertain(p)
        PROVE  OwnerInv'
    <2> DEFINE r == process[p].record
    <2>1. /\ process[p].pc = "link" /\ UNCHANGED <<aside, created, ownerEdits, guard, authority>>
          /\ owner' = owner \/ (owner = None /\ owner' = r)
          /\ process' = [process EXCEPT ![p] = [pc |-> "uncertain", record |-> None]]
      BY <1>7 DEF Ow!CreateUncertain, Ow!AfterUncertain, Ow!Step
    <2>2. Ow!Valid(r)
      BY <2>1 DEF OwnerInv, Working, Ow!NoneFits
    <2> HIDE DEF r
    <2>3. Authorized'
      BY <1>0, <2>1, <2>2 DEF Authorized
    <2>4. process'[p].pc = "uncertain" /\ guard' = p
      BY <1>0, <2>1 DEF OwnerInv, Ow!TypeOK
    <2>5. Working(p)'
      BY <2>4 DEF Working
    <2> QED  BY <1>0, <2>1, <2>3, <2>4, <2>5, OwnerGoes
  <1>8. ASSUME NEW p \in Process, Ow!Inspect(p) \/ Ow!Confirm(p)
        PROVE  OwnerInv'
    <2>1. /\ process[p].pc \in {"repair", "confirm"}
          /\ UNCHANGED <<owner, aside, authority, created, ownerEdits>>
      BY <1>8 DEF Ow!Inspect, Ow!Confirm
    <2>2. Authorized'
      BY <1>0, <2>1 DEF Authorized
    <2>3. CASE Ow!Leaves(p)
      BY <1>0, <2>1, <2>2, <2>3, LeavesKeeps
    <2>4. CASE ~ Ow!Leaves(p)
      <3>1. PICK l \in {"confirm", "move"}: Ow!Step(p, l, owner) /\ UNCHANGED guard
        BY <1>8, <2>4 DEF Ow!Inspect, Ow!Confirm
      <3>2. ~ Ow!Valid(owner)
        BY <1>8, <2>4 DEF Ow!Inspect, Ow!Confirm, OwnerInv, Working
      <3>3. process' = [process EXCEPT ![p] = [pc |-> l, record |-> owner]]
        BY <3>1 DEF Ow!Step
      <3>4. process'[p] = [pc |-> l, record |-> owner] /\ guard' = p
        BY <1>0, <2>1, <3>1, <3>3 DEF OwnerInv, Ow!TypeOK
      <3>5. Working(p)'
        BY <2>1, <3>2, <3>4 DEF Working
      <3> QED  BY <1>0, <2>1, <2>2, <3>3, <3>4, <3>5, OwnerGoes
    <2> QED  BY <2>3, <2>4
  <1>9. ASSUME NEW p \in Process, Ow!MoveAside(p)
        PROVE  OwnerInv'
    <2>1. process[p].pc = "move" /\ UNCHANGED <<authority, created, ownerEdits>>
      BY <1>9 DEF Ow!MoveAside
    <2>2. CASE owner = None
      <3>1. Ow!Leaves(p) /\ UNCHANGED <<owner, aside>>
        BY <1>9, <2>2 DEF Ow!MoveAside
      <3>2. Authorized'
        BY <1>0, <2>1, <3>1 DEF Authorized
      <3> QED  BY <1>0, <2>1, <3>1, <3>2, LeavesKeeps
    <2>3. CASE owner # None
      <3> DEFINE r == [seen |-> process[p].record, moved |-> owner]
      <3>1. /\ aside' = aside \cup {[record |-> owner, proven |-> FALSE]} /\ owner' = None
            /\ process' = [process EXCEPT ![p] = [pc |-> "judge", record |-> r]]
            /\ UNCHANGED guard
        BY <1>9, <2>3 DEF Ow!MoveAside
      <3>2. ~ Ow!Valid(process[p].record) /\ (ownerEdits = 0 => owner = process[p].record)
        BY <2>1 DEF OwnerInv, Working
      <3>3. r = [seen |-> r.seen, moved |-> r.moved] /\ ~ Ow!Valid(r.seen)
            /\ (ownerEdits = 0 => r.seen = r.moved)
        BY <3>2
      <3> HIDE DEF r
      <3>4. process'[p] = [pc |-> "judge", record |-> r] /\ guard' = p
        BY <1>0, <2>1, <3>1 DEF OwnerInv, Ow!TypeOK
      <3>5. Working(p)'
        BY <2>1, <3>3, <3>4 DEF Working
      <3>6. Authorized'
        BY <1>0, <2>1, <3>1, <3>2 DEF Authorized
      <3>7. \A x \in aside': x.proven \in BOOLEAN /\ (x.proven => ~ Ow!Valid(x.record))
        <4>1. SUFFICES ASSUME NEW x \in aside'
                       PROVE  x.proven \in BOOLEAN /\ (x.proven => ~ Ow!Valid(x.record))
          OBVIOUS
        <4>2. CASE x \in aside
          BY <1>0, <4>2
        <4>3. CASE x = [record |-> owner, proven |-> FALSE]
          BY <4>3
        <4> QED  BY <3>1, <4>1, <4>2, <4>3
      <3> QED  BY <1>0, <2>1, <3>1, <3>4, <3>5, <3>6, <3>7, OwnerGoes
    <2> QED  BY <2>2, <2>3
  <1>10. ASSUME NEW p \in Process, Ow!Judge(p)
         PROVE  OwnerInv'
    <2> DEFINE found == process[p].record.seen
               moved == process[p].record.moved
               others == aside \ {[record |-> moved, proven |-> FALSE]}
    <2>1. /\ process[p].pc = "judge" /\ Ow!Leaves(p)
          /\ UNCHANGED <<authority, created, ownerEdits>>
          /\ found = moved =>
               aside' = others \cup {[record |-> moved, proven |-> TRUE]} /\ UNCHANGED owner
          /\ found # moved => aside' = others /\ owner' = moved
      BY <1>10 DEF Ow!Judge, Ow!SameFile
    <2>2. ~ Ow!Valid(found) /\ (ownerEdits = 0 => found = moved)
      BY <2>1 DEF OwnerInv, Working
    <2> HIDE DEF found, moved
    <2>3. Authorized'
      BY <1>0, <2>1, <2>2 DEF Authorized
    <2>4. \A x \in aside': x.proven \in BOOLEAN /\ (x.proven => ~ Ow!Valid(x.record))
      <3>1. SUFFICES ASSUME NEW x \in aside'
                     PROVE  x.proven \in BOOLEAN /\ (x.proven => ~ Ow!Valid(x.record))
        OBVIOUS
      <3>2. CASE x \in aside
        BY <1>0, <3>2
      <3>3. CASE x = [record |-> moved, proven |-> TRUE] /\ found = moved
        BY <2>2, <3>3
      <3> QED  BY <2>1, <3>1, <3>2, <3>3
    <2> QED  BY <1>0, <2>1, <2>3, <2>4, LeavesKeeps
  <1>11. ASSUME NEW p \in Process, Ow!Kill(p)
         PROVE  OwnerInv'
    <2>1. /\ process[p].pc # "idle" /\ Ow!Leaves(p)
          /\ UNCHANGED <<owner, aside, authority, created, ownerEdits>>
      BY <1>11 DEF Ow!Kill
    <2>2. Authorized'
      BY <1>0, <2>1 DEF Authorized
    <2> QED  BY <1>0, <2>1, <2>2, LeavesKeeps
  <1>12. CASE Ow!UserEdits
    <2>1. /\ ownerEdits' = ownerEdits + 1 /\ created' = created + 1
          /\ UNCHANGED <<aside, guard, process, authority>>
      BY <1>12 DEF Ow!UserEdits
    <2>2. ownerEdits' \in Nat /\ ownerEdits' # 0 /\ created' \in Nat
      BY <1>0, <2>1
    <2>3. \A p \in Process: Working(p)'
      BY <2>1, <2>2 DEF OwnerInv, Working
    <2> QED  BY <2>1, <2>2, <2>3 DEF OwnerInv, Ow!TypeOK, Authorized
  <1> QED  BY <1>1, <1>2, <1>3, <1>4, <1>5, <1>6, <1>7, <1>8, <1>9, <1>10, <1>11,
              <1>12 DEF Ow!Next

\* What a repair reports as moved away is an invalid record, and until the user edits the file
\* everybody who was given the authority has the token in it (createCliMutationAuthority and
\* quarantineInvalidCliOwnerRecord, state/authority.ts).
THEOREM AuthorityHeld == ASSUME Ow!NoneFits PROVE Ow!Spec => []Ow!AuthorityKept
  <1>1. OwnerInv /\ [Ow!Next]_Ow!vars => OwnerInv'
    BY OwnerStepKeeps
  <1>2. OwnerInv => Ow!AuthorityKept
    BY OwnerImplied
  <1> QED  BY <1>1, <1>2, OwnerInitially, PTL DEF Ow!Spec

-----------------------------------------------------------------------------
(* Ulw.  A worker of the run at work has no receipt of it yet, and the run *)
(* is the last of its id; so what it does to its worktree makes no receipt *)
(* untrue that has not been made so by the run already.                    *)

Tree == [run: 1 .. MaxRuns, worked: BOOLEAN]

\* The worktree of a worker between its making and its receipt is its run's.
Made(w) ==
    /\ step[w] \in {"invoke", "retain"} =>
         worktree[ulw][w] \in Tree /\ worktree[ulw][w].run = Len(ids)
    /\ step[w] = "retain" => worktree[ulw][w].worked

\* A run gives a worker its receipt last.
Dated(r) == r.run <= Len(ids) /\ (r.run = Len(ids) => step[r.worker] = "done")

StillSo(r) ==
    Ul!Last(r) =>
        /\ r.disposition = "retained" => Ul!Kept(r)
        /\ r.disposition = "removed-before-invocation" => worktree[r.id][r.worker] = None

UlwInv ==
    /\ Ul!TypeOK
    /\ Len(ids) <= MaxRuns
    /\ ulw # None => Len(ids) >= 1 /\ ids[Len(ids)] = ulw
    /\ ulw = None => \A w \in Worker: step[w] = "done"
    /\ \A w \in Worker: Made(w)
    /\ \A r \in receipts: Dated(r)
    /\ \A r \in receipts: StillSo(r)

LEMMA UlwImplied == ASSUME UlwInv PROVE Ul!ReceiptsTrue
  BY DEF UlwInv, StillSo, Ul!ReceiptsTrue

LEMMA UlwInitially == ASSUME Ul!NoneFits, Ul!Init PROVE UlwInv
  <1>1. Ul!TypeOK
    BY DEF Ul!Init, Ul!TypeOK, Ul!NoneFits
  <1>2. Len(ids) = 0
    BY DEF Ul!Init
  <1> QED  BY <1>1, <1>2 DEF Ul!Init, UlwInv, Made, Ul!NoneFits

\* Who works in a run has no receipt of the last run of its id.
LEMMA Others ==
    ASSUME Ul!NoneFits, UlwInv, NEW w \in Worker, step[w] # "done", NEW r \in receipts,
           r.id = ulw, r.worker = w, Ul!Last(r)
    PROVE  FALSE
  <1>1. ulw # None /\ Len(ids) \in Nat /\ Len(ids) >= 1 /\ ids[Len(ids)] = r.id
    BY DEF UlwInv, Ul!TypeOK
  <1>2. Len(ids) \in DOMAIN ids
    BY <1>1 DEF UlwInv, Ul!TypeOK
  <1>3. r.run \in Int /\ ~(Len(ids) > r.run)
    BY <1>1, <1>2 DEF Ul!Last, UlwInv, Ul!TypeOK, Ul!Receipts
  <1>4. r.run = Len(ids)
    BY <1>1, <1>3 DEF UlwInv, Dated
  <1> QED  BY <1>4 DEF UlwInv, Dated

\* A worker that goes on in its worktree, with or without a receipt at its end.
LEMMA UlwWorks ==
    ASSUME Ul!NoneFits, UlwInv, NEW w \in Worker, ulw # None, step[w] # "done",
           NEW t, t \in Tree \cup {None}, Ul!Put(w, t) \/ (UNCHANGED worktree /\ t = Ul!Here(w)),
           NEW s, s \in {"add", "invoke", "retain", "cleanup", "done"}, Ul!Goto(w, s),
           UNCHANGED <<ulw, ids>>,
           s \in {"invoke", "retain"} => t \in Tree /\ t.run = Len(ids),
           s = "retain" => t.worked,
           NEW d, d \in {"retained", "removed-before-invocation", "cleanup-failed"},
           UNCHANGED receipts \/ (Ul!Receipt(w, d) /\ s = "done"),
           Ul!Receipt(w, d) =>
               /\ d = "retained" => t \in Tree /\ t.run = Len(ids) /\ t.worked
               /\ d = "removed-before-invocation" => t = None
    PROVE  UlwInv'
  <1> USE DEF Tree
  <1>1. /\ worktree \in [Id -> [Worker -> Tree \cup {None}]] /\ ulw \in Id
        /\ step \in [Worker -> {"add", "invoke", "retain", "cleanup", "done"}]
        /\ Len(ids) \in Nat /\ Len(ids) >= 1 /\ Len(ids) <= MaxRuns /\ ids \in Seq(Id)
        /\ ids[Len(ids)] = ulw /\ MaxRuns \in Nat
    BY DEF UlwInv, Ul!TypeOK, Ul!NoneFits
  <1>2. /\ worktree' \in [Id -> [Worker -> Tree \cup {None}]]
        /\ worktree'[ulw][w] = t
        /\ \A i \in Id, v \in Worker: i # ulw \/ v # w => worktree'[i][v] = worktree[i][v]
    BY <1>1 DEF Ul!Put, Ul!Here
  <1>3. /\ step' \in [Worker -> {"add", "invoke", "retain", "cleanup", "done"}]
        /\ step'[w] = s /\ \A v \in Worker: v # w => step'[v] = step[v]
    BY <1>1 DEF Ul!Goto
  <1> DEFINE new == [run |-> Len(ids), id |-> ulw, worker |-> w, disposition |-> d]
  <1>4. new \in Ul!Receipts /\ new.run = Len(ids) /\ new.id = ulw /\ new.worker = w
        /\ new.disposition = d
    BY <1>1 DEF Ul!Receipts
  <1>5. \A r \in receipts': r \in receipts \/ (r = new /\ Ul!Receipt(w, d) /\ s = "done")
    BY DEF Ul!Receipt
  <1>6. \A r \in receipts: r \in Ul!Receipts
    BY DEF UlwInv, Ul!TypeOK
  <1> HIDE DEF new
  <1>7. Ul!TypeOK'
    BY <1>1, <1>2, <1>3, <1>4, <1>5, <1>6 DEF Ul!TypeOK, Ul!Receipts
  <1>8. ASSUME NEW v \in Worker
        PROVE  Made(v)'
    <2>1. CASE v = w
      BY <1>2, <1>3, <2>1 DEF Made
    <2>2. CASE v # w
      BY <1>1, <1>2, <1>3, <2>2 DEF Made, UlwInv
    <2> QED  BY <2>1, <2>2
  <1>9. ASSUME NEW r \in receipts'
        PROVE  Dated(r)' /\ StillSo(r)'
    <2>1. CASE r \in receipts
      <3>1. r \in Ul!Receipts /\ r.run \in Int /\ r.id \in Id /\ r.worker \in Worker /\ Dated(r)
            /\ StillSo(r)
        BY <1>6, <2>1 DEF Ul!Receipts, UlwInv
      <3>2. Dated(r)'
        BY <1>3, <3>1 DEF Dated
      <3>3. CASE r.id = ulw /\ r.worker = w
        <4>1. ~ Ul!Last(r)
          BY <2>1, <3>3, Others
        <4> QED  BY <3>2, <4>1 DEF StillSo, Ul!Last
      <3>4. CASE ~(r.id = ulw /\ r.worker = w)
        <4>1. worktree'[r.id][r.worker] = worktree[r.id][r.worker]
          BY <1>2, <3>1, <3>4
        <4> QED  BY <3>1, <3>2, <4>1 DEF StillSo, Ul!Last, Ul!Kept
      <3> QED  BY <3>3, <3>4
    <2>2. CASE r = new /\ Ul!Receipt(w, d) /\ s = "done"
      <3>1. Dated(r)'
        BY <1>1, <1>3, <1>4, <2>2 DEF Dated
      <3>2. StillSo(r)'
        BY <1>1, <1>2, <1>4, <2>2 DEF StillSo, Ul!Kept, Ul!NoneFits
      <3> QED  BY <3>1, <3>2
    <2> QED  BY <1>5, <2>1, <2>2
  <1> QED  BY <1>1, <1>7, <1>8, <1>9 DEF UlwInv

LEMMA UlwStepKeeps ==
    ASSUME Ul!NoneFits, UlwInv, [Ul!Next]_Ul!vars
    PROVE  UlwInv'
  <1>0. /\ worktree \in [Id -> [Worker -> Tree \cup {None}]]
        /\ \A w \in Worker: ulw # None => Ul!Here(w) \in Tree \cup {None}
        /\ Len(ids) \in Nat /\ Len(ids) <= MaxRuns /\ MaxRuns \in Nat
        /\ ulw # None => Len(ids) >= 1 /\ Ul!Fresh \in Tree /\ Ul!Fresh.run = Len(ids)
        /\ None \notin Tree
    BY DEF UlwInv, Ul!TypeOK, Ul!Here, Tree, Ul!NoneFits, Ul!Fresh
  <1>1. CASE UNCHANGED Ul!vars
    BY <1>1 DEF Ul!vars, UlwInv, Ul!TypeOK, Made, Dated, StillSo, Ul!Last, Ul!Kept
  <1>2. ASSUME NEW i \in Id, Ul!Run(i)
        PROVE  UlwInv'
    <2>1. /\ ulw' = i /\ ids' = Append(ids, i) /\ Len(ids) < MaxRuns
          /\ step' = [w \in Worker |-> "add"] /\ UNCHANGED <<worktree, receipts>>
      BY <1>2 DEF Ul!Run
    <2>2. ids \in Seq(Id)
      BY DEF UlwInv, Ul!TypeOK
    <2>3. /\ ids' \in Seq(Id) /\ Len(ids') = Len(ids) + 1 /\ ids'[Len(ids')] = i
          /\ \A k \in DOMAIN ids: k \in DOMAIN ids' /\ ids'[k] = ids[k]
      BY <2>1, <2>2
    <2>4. Ul!TypeOK'
      BY <2>1, <2>3 DEF UlwInv, Ul!TypeOK
    <2>5. i # None
      BY DEF Ul!NoneFits
    <2>6. ASSUME NEW r \in receipts
          PROVE  Dated(r)' /\ StillSo(r)'
      <3>1. r.run \in Int /\ Dated(r) /\ StillSo(r)
        BY DEF UlwInv, Ul!TypeOK, Ul!Receipts
      <3>2. Dated(r)'
        BY <1>0, <2>3, <3>1 DEF Dated
      <3>3. Ul!Last(r)' => Ul!Last(r)
        BY <2>3 DEF Ul!Last
      <3> QED  BY <2>1, <3>1, <3>2, <3>3 DEF StillSo, Ul!Kept
    <2> QED  BY <1>0, <2>1, <2>3, <2>4, <2>5, <2>6 DEF UlwInv, Made
  <1>3. ASSUME NEW w \in Worker, Ul!Add(w)
        PROVE  UlwInv'
    <2>1. /\ ulw # None /\ step[w] = "add" /\ UNCHANGED <<ulw, receipts, ids>>
          /\ \/ Ul!Put(w, Ul!Fresh) /\ Ul!Goto(w, "invoke")
             \/ UNCHANGED worktree /\ Ul!Goto(w, "cleanup")
             \/ Ul!Put(w, Ul!Fresh) /\ Ul!Goto(w, "cleanup")
      BY <1>3 DEF Ul!Add, Ul!At
    <2>2. CASE Ul!Put(w, Ul!Fresh) /\ Ul!Goto(w, "invoke")
      BY <1>0, <2>1, <2>2, UlwWorks
    <2>3. CASE UNCHANGED worktree /\ Ul!Goto(w, "cleanup")
      BY <1>0, <2>1, <2>3, UlwWorks
    <2>4. CASE Ul!Put(w, Ul!Fresh) /\ Ul!Goto(w, "cleanup")
      BY <1>0, <2>1, <2>4, UlwWorks
    <2> QED  BY <2>1, <2>2, <2>3, <2>4
  <1>4. ASSUME NEW w \in Worker, Ul!Invoke(w)
        PROVE  UlwInv'
    <2> DEFINE t == [Ul!Here(w) EXCEPT !.worked = TRUE]
    <2>1. /\ ulw # None /\ step[w] = "invoke" /\ UNCHANGED <<ulw, receipts, ids>>
          /\ Ul!Put(w, t) /\ Ul!Goto(w, "retain")
      BY <1>4 DEF Ul!Invoke, Ul!At
    <2>2. Ul!Here(w) \in Tree /\ Ul!Here(w).run = Len(ids)
      BY <2>1 DEF UlwInv, Made, Ul!Here
    <2>3. t \in Tree /\ t.run = Len(ids) /\ t.worked
      BY <2>2 DEF Tree
    <2> HIDE DEF t
    <2> QED  BY <1>0, <2>1, <2>3, UlwWorks
  <1>5. ASSUME NEW w \in Worker, Ul!Retain(w)
        PROVE  UlwInv'
    <2>1. /\ ulw # None /\ step[w] = "retain" /\ UNCHANGED <<worktree, ulw, ids>>
          /\ Ul!Receipt(w, "retained") /\ Ul!Goto(w, "done")
      BY <1>5 DEF Ul!Retain, Ul!At
    <2>2. Ul!Here(w) \in Tree /\ Ul!Here(w).run = Len(ids) /\ Ul!Here(w).worked
      BY <2>1 DEF UlwInv, Made, Ul!Here
    <2> QED  BY <1>0, <2>1, <2>2, UlwWorks
  <1>6. ASSUME NEW w \in Worker, Ul!Cleanup(w)
        PROVE  UlwInv'
    <2>1. /\ ulw # None /\ step[w] = "cleanup" /\ UNCHANGED <<ulw, ids>> /\ Ul!Goto(w, "done")
          /\ \/ Ul!Put(w, None) /\ Ul!Receipt(w, "removed-before-invocation")
             \/ UNCHANGED worktree /\ \E d \in Ul!Unremoved(w): Ul!Receipt(w, d)
      BY <1>6 DEF Ul!Cleanup, Ul!At
    <2>2. CASE Ul!Put(w, None) /\ Ul!Receipt(w, "removed-before-invocation")
      BY <1>0, <2>1, <2>2, UlwWorks
    <2>3. CASE UNCHANGED worktree /\ \E d \in Ul!Unremoved(w): Ul!Receipt(w, d)
      <3>1. PICK d \in Ul!Unremoved(w): Ul!Receipt(w, d)
        BY <2>3
      <3>2. /\ d \in {"removed-before-invocation", "cleanup-failed"}
            /\ d = "removed-before-invocation" => Ul!Here(w) = None
        BY DEF Ul!Unremoved
      <3> QED  BY <1>0, <2>1, <2>3, <3>1, <3>2, UlwWorks
    <2> QED  BY <2>1, <2>2, <2>3
  <1>7. CASE Ul!Finish
    BY <1>7 DEF Ul!Finish, UlwInv, Ul!TypeOK, Made, Dated, StillSo, Ul!Last, Ul!Kept
  <1>8. CASE Ul!Kill
    <2>1. /\ ulw' = None /\ step' = [w \in Worker |-> "done"]
          /\ UNCHANGED <<worktree, receipts, ids>>
      BY <1>8 DEF Ul!Kill
    <2>2. \A r \in receipts: r.worker \in Worker
      BY DEF UlwInv, Ul!TypeOK, Ul!Receipts
    <2> QED  BY <2>1, <2>2 DEF UlwInv, Ul!TypeOK, Made, Dated, StillSo, Ul!Last, Ul!Kept
  <1> QED  BY <1>1, <1>2, <1>3, <1>4, <1>5, <1>6, <1>7, <1>8 DEF Ul!Next

\* As long as nobody uses its id again, what a run told of a worktree is so (modes/ulw.ts).
THEOREM ReceiptsHold == ASSUME Ul!NoneFits PROVE Ul!Spec => []Ul!ReceiptsTrue
  <1>1. UlwInv /\ [Ul!Next]_Ul!vars => UlwInv'
    BY UlwStepKeeps
  <1>2. UlwInv => Ul!ReceiptsTrue
    BY UlwImplied
  <1> QED  BY <1>1, <1>2, UlwInitially, PTL DEF Ul!Spec

-----------------------------------------------------------------------------
(* Automations.  As long as calls did not overlap one call at most is open;*)
(* the invariant says what it has done so far, unless it or an earlier one *)
(* stopped half way.                                                       *)

ManagerRecord ==
    [pc: {"idle", "plan", "export", "commit", "remove", "remove_fallback", "disable"},
     plan: Au!Manifest \cup {None}, fallback: BOOLEAN, target: Au!Target \cup {None}]

\* The plan tells where it is exported.
ToldRight ==
    automation # None =>
        /\ automation.status = "installed" => automation.target \in exports
        /\ automation.status = "disabled" => exports = {}

\* What the one call that is open has done so far.
AutomationMidway(p) ==
    /\ manager[p].pc \in {"plan", "export", "commit"} => manager[p].target \in Au!Target
    /\ manager[p].pc \in {"remove", "remove_fallback", "disable"} =>
         manager[p].plan \in Au!Manifest
    /\ ~mixed =>
         /\ manager[p].pc = "plan" /\ ~half => ToldRight
         /\ manager[p].pc = "commit" => manager[p].target \in exports
         /\ manager[p].pc = "remove_fallback" /\ ~half => exports \subseteq {"fallback-local"}
         /\ manager[p].pc = "disable" /\ ~half => exports = {}

AutomationInv ==
    /\ automation \in Au!Manifest \cup {None}
    /\ exports \subseteq Au!Target
    /\ manager \in [Process -> ManagerRecord]
    /\ ~mixed => \A p, q \in Process: manager[p].pc # "idle" /\ manager[q].pc # "idle" => p = q
    /\ \A p \in Process: AutomationMidway(p)
    /\ ~mixed /\ ~half /\ (\A p \in Process: manager[p].pc = "idle") => ToldRight

LEMMA AutomationImplied == ASSUME AutomationInv PROVE Au!ExportsAsTold
  BY DEF AutomationInv, ToldRight, Au!ExportsAsTold, Au!At

LEMMA AutomationInitially == ASSUME Au!Init PROVE AutomationInv
  BY DEF Au!Init, AutomationInv, AutomationMidway, ToldRight, Au!Resting, ManagerRecord

\* A call that begins.
LEMMA Opens ==
    ASSUME AutomationInv, NEW p \in Process, NEW entry \in ManagerRecord, entry.pc # "idle",
           Au!Open(p, entry),
           entry.pc \in {"plan", "export", "remove"},
           entry.pc \in {"plan", "export"} => entry.target \in Au!Target,
           entry.pc = "remove" => entry.plan \in Au!Manifest
    PROVE  AutomationInv'
  <1>1. /\ manager[p].pc = "idle" /\ manager' = [manager EXCEPT ![p] = entry]
        /\ mixed' = (mixed \/ \E q \in Process: manager[q].pc # "idle")
        /\ UNCHANGED <<automation, exports, half>> /\ manager \in [Process -> ManagerRecord]
    BY DEF Au!Open, Au!At, AutomationInv
  <1>2. manager' \in [Process -> ManagerRecord] /\ manager'[p] = entry
        /\ \A q \in Process: q # p => manager'[q] = manager[q]
    BY <1>1
  <1>3. ~mixed' => ~mixed /\ \A q \in Process: manager[q].pc = "idle"
    BY <1>1
  <1>4. \A q \in Process: AutomationMidway(q)'
    BY <1>1, <1>2, <1>3 DEF AutomationMidway, AutomationInv, ToldRight
  <1> QED  BY <1>1, <1>2, <1>3, <1>4 DEF AutomationInv, ToldRight

\* One that goes on or ends.
LEMMA AutomationGoes ==
    ASSUME AutomationInv, NEW p \in Process, manager[p].pc # "idle",
           NEW entry \in ManagerRecord, manager' = [manager EXCEPT ![p] = entry],
           UNCHANGED mixed, automation' \in Au!Manifest \cup {None}, exports' \subseteq Au!Target,
           AutomationMidway(p)',
           ~mixed /\ ~half' /\ entry.pc = "idle" => ToldRight'
    PROVE  AutomationInv'
  <1>1. manager' \in [Process -> ManagerRecord] /\ manager'[p] = entry
        /\ \A q \in Process: q # p => manager'[q] = manager[q]
    BY DEF AutomationInv
  <1>2. ASSUME NEW q \in Process, q # p
        PROVE  AutomationMidway(q)'
    <2>1. ~mixed => manager'[q].pc = "idle"
      BY <1>1, <1>2 DEF AutomationInv
    <2> QED  BY <1>1, <1>2, <2>1 DEF AutomationMidway, AutomationInv
  <1> QED  BY <1>1, <1>2 DEF AutomationInv

LEMMA AutomationStepKeeps ==
    ASSUME AutomationInv, [Au!Next]_Au!vars
    PROVE  AutomationInv'
  <1> USE DEF Au!At
  <1>0. /\ manager \in [Process -> ManagerRecord] /\ automation \in Au!Manifest \cup {None}
        /\ exports \subseteq Au!Target /\ Au!Resting \in ManagerRecord /\ Au!Resting.pc = "idle"
        /\ \A p \in Process: manager[p] \in ManagerRecord /\ AutomationMidway(p)
    BY DEF AutomationInv, Au!Resting, ManagerRecord
  <1>1. CASE UNCHANGED Au!vars
    BY <1>1 DEF Au!vars, AutomationInv, AutomationMidway, ToldRight
  <1>2. ASSUME NEW p \in Process, Au!Plan(p)
        PROVE  AutomationInv'
    <2>1. PICK t \in Au!Target: Au!Open(p, [Au!Resting EXCEPT !.pc = "plan", !.target = t])
      BY <1>2 DEF Au!Plan
    <2> DEFINE entry == [Au!Resting EXCEPT !.pc = "plan", !.target = t]
    <2>2. entry \in ManagerRecord /\ entry.pc = "plan" /\ entry.target = t
      BY <1>0 DEF ManagerRecord
    <2> HIDE DEF entry
    <2>3. Au!Open(p, entry)
      BY <2>1 DEF entry
    <2> QED  BY <2>2, <2>3, Opens
  <1>3. ASSUME NEW p \in Process, Au!Planned(p)
        PROVE  AutomationInv'
    <2>1. /\ manager[p].pc = "plan" /\ UNCHANGED <<exports, mixed, half>>
          /\ automation' = [status |-> "planned", target |-> manager[p].target]
          /\ manager' = [manager EXCEPT ![p] = Au!Resting]
      BY <1>3 DEF Au!Planned, Au!Return
    <2>2. automation' \in Au!Manifest /\ automation'.status = "planned"
      BY <1>0, <2>1 DEF AutomationMidway, Au!Manifest, Au!Status
    <2>3. AutomationMidway(p)' /\ ToldRight'
      BY <1>0, <2>1, <2>2 DEF AutomationMidway, ToldRight
    <2> QED  BY <1>0, <2>1, <2>2, <2>3, AutomationGoes
  <1>4. ASSUME NEW p \in Process, Au!Install(p)
        PROVE  AutomationInv'
    <2>1. automation \in Au!Manifest
      BY <1>0, <1>4 DEF Au!Install
    <2>2. PICK available, allowed \in BOOLEAN:
            Au!Open(p, [pc |-> "export", plan |-> automation, fallback |-> allowed,
                     target |-> IF available THEN "cursor-native" ELSE "fallback-local"])
      BY <1>4 DEF Au!Install
    <2> DEFINE t == IF available THEN "cursor-native" ELSE "fallback-local"
               entry == [pc |-> "export", plan |-> automation, fallback |-> allowed, target |-> t]
    <2>3. t \in Au!Target
      BY DEF Au!Target
    <2> HIDE DEF t
    <2>4. entry \in ManagerRecord /\ entry.pc = "export" /\ entry.target = t
      BY <2>1, <2>3 DEF ManagerRecord
    <2>5. Au!Open(p, entry)
      BY <2>2 DEF t
    <2> HIDE DEF entry
    <2> QED  BY <2>3, <2>4, <2>5, Opens
  <1>5. ASSUME NEW p \in Process, Au!Export(p)
        PROVE  AutomationInv'
    <2> DEFINE entry == [manager[p] EXCEPT !.pc = "commit"]
    <2>1. /\ manager[p].pc = "export" /\ UNCHANGED <<automation, mixed, half>>
          /\ exports' = exports \cup {manager[p].target}
          /\ manager' = [manager EXCEPT ![p] = entry]
      BY <1>0, <1>5 DEF Au!Export, Au!Goto
    <2>2. entry \in ManagerRecord /\ entry.pc = "commit" /\ entry.target = manager[p].target
          /\ manager[p].target \in Au!Target
      BY <1>0, <2>1 DEF ManagerRecord, AutomationMidway
    <2> HIDE DEF entry
    <2>3. manager'[p] = entry
      BY <1>0, <2>1
    <2>4. AutomationMidway(p)'
      BY <2>1, <2>2, <2>3 DEF AutomationMidway
    <2> QED  BY <1>0, <2>1, <2>2, <2>4, AutomationGoes
  <1>6. ASSUME NEW p \in Process, Au!Commit(p)
        PROVE  AutomationInv'
    <2>1. /\ manager[p].pc = "commit" /\ half' = FALSE /\ UNCHANGED <<exports, mixed>>
          /\ automation' = [status |-> "installed", target |-> manager[p].target]
          /\ manager' = [manager EXCEPT ![p] = Au!Resting]
      BY <1>6 DEF Au!Commit, Au!Return
    <2>2. /\ automation' \in Au!Manifest /\ automation'.status = "installed"
          /\ automation'.target = manager[p].target
          /\ ~mixed => manager[p].target \in exports
      BY <1>0, <2>1 DEF AutomationMidway, Au!Manifest, Au!Status
    <2>3. AutomationMidway(p)' /\ (~mixed => ToldRight')
      BY <1>0, <2>1, <2>2 DEF AutomationMidway, ToldRight
    <2> QED  BY <1>0, <2>1, <2>2, <2>3, AutomationGoes
  <1>7. ASSUME NEW p \in Process, Au!WriteFails(p)
        PROVE  AutomationInv'
    <2>1. /\ manager[p].pc \in {"plan", "export", "commit", "disable"}
          /\ half' = (half \/ manager[p].pc # "plan") /\ UNCHANGED <<automation, exports, mixed>>
      BY <1>7 DEF Au!WriteFails
    <2>2. CASE Au!Return(p)
      <3>1. manager' = [manager EXCEPT ![p] = Au!Resting]
        BY <2>2 DEF Au!Return
      <3>2. AutomationMidway(p)' /\ (~mixed /\ ~half' => ToldRight')
        BY <1>0, <2>1, <3>1 DEF AutomationMidway, ToldRight
      <3> QED  BY <1>0, <2>1, <3>1, <3>2, AutomationGoes
    <2>3. CASE ~ Au!Return(p)
      <3> DEFINE entry == [manager[p] EXCEPT !.pc = "export", !.target = "fallback-local"]
      <3>1. /\ manager[p].pc # "plan"
            /\ manager' = [manager EXCEPT ![p].pc = "export", ![p].target = "fallback-local"]
        BY <1>7, <2>3 DEF Au!WriteFails
      <3>2. manager' = [manager EXCEPT ![p] = entry]
        BY <1>0, <3>1
      <3>3. entry \in ManagerRecord /\ entry.pc = "export" /\ entry.target \in Au!Target
        BY <1>0, <2>1 DEF ManagerRecord, Au!Target
      <3> HIDE DEF entry
      <3>4. manager'[p] = entry
        BY <1>0, <3>2
      <3>5. AutomationMidway(p)'
        BY <3>3, <3>4 DEF AutomationMidway
      <3> QED  BY <1>0, <2>1, <3>2, <3>3, <3>5, AutomationGoes
    <2> QED  BY <2>2, <2>3
  <1>8. ASSUME NEW p \in Process, Au!Remove(p)
        PROVE  AutomationInv'
    <2> DEFINE entry == [Au!Resting EXCEPT !.pc = "remove", !.plan = automation]
    <2>1. automation \in Au!Manifest /\ Au!Open(p, entry)
      BY <1>0, <1>8 DEF Au!Remove
    <2>2. entry \in ManagerRecord /\ entry.pc = "remove" /\ entry.plan = automation
      BY <1>0, <2>1 DEF ManagerRecord
    <2> HIDE DEF entry
    <2> QED  BY <2>1, <2>2, Opens
  <1>9. ASSUME NEW p \in Process, NEW t \in Au!Target, Au!RemoveExport(p, t)
        PROVE  AutomationInv'
    <2> DEFINE from == IF t = "cursor-native" THEN "remove" ELSE "remove_fallback"
               to == IF t = "cursor-native" THEN "remove_fallback" ELSE "disable"
               entry == [manager[p] EXCEPT !.pc = to]
    <2>1. /\ manager[p].pc = from /\ UNCHANGED <<automation, mixed>>
          /\ \/ exports' = exports \ {t} /\ half' = (half /\ t # "cursor-native")
             \/ half' = TRUE /\ UNCHANGED exports
          /\ manager' = [manager EXCEPT ![p] = entry]
      BY <1>0, <1>9 DEF Au!RemoveExport, Au!Removable, Au!Goto
    <2>2. entry \in ManagerRecord /\ entry.pc = to /\ entry.plan = manager[p].plan
          /\ manager[p].plan \in Au!Manifest
      BY <1>0, <2>1 DEF ManagerRecord, AutomationMidway
    <2> HIDE DEF entry
    <2>3. manager'[p] = entry /\ exports' \subseteq exports
      BY <1>0, <2>1
    <2>4. CASE t = "cursor-native"
      <3>1. AutomationMidway(p)'
        BY <1>0, <2>1, <2>2, <2>3, <2>4 DEF AutomationMidway, Au!Target
      <3> QED  BY <1>0, <2>1, <2>2, <2>3, <2>4, <3>1, AutomationGoes
    <2>5. CASE t = "fallback-local"
      <3>1. ~mixed /\ ~half => exports \subseteq {"fallback-local"}
        BY <1>0, <2>1, <2>5 DEF AutomationMidway
      <3>2. AutomationMidway(p)'
        BY <1>0, <2>1, <2>2, <2>3, <2>5, <3>1 DEF AutomationMidway
      <3> QED  BY <1>0, <2>1, <2>2, <2>3, <2>5, <3>2, AutomationGoes
    <2> QED  BY <2>4, <2>5 DEF Au!Target
  <1>10. ASSUME NEW p \in Process, Au!Disable(p)
         PROVE  AutomationInv'
    <2>1. /\ manager[p].pc = "disable" /\ UNCHANGED <<exports, mixed, half>>
          /\ automation' = [manager[p].plan EXCEPT !.status = "disabled"]
          /\ manager' = [manager EXCEPT ![p] = Au!Resting]
      BY <1>10 DEF Au!Disable, Au!Return
    <2>2. manager[p].plan \in Au!Manifest /\ (~mixed /\ ~half => exports = {})
      BY <1>0, <2>1 DEF AutomationMidway
    <2>3. automation' \in Au!Manifest /\ automation'.status = "disabled"
      BY <2>1, <2>2 DEF Au!Manifest, Au!Status
    <2>4. AutomationMidway(p)' /\ (~mixed /\ ~half => ToldRight')
      BY <1>0, <2>1, <2>2, <2>3 DEF AutomationMidway, ToldRight
    <2> QED  BY <1>0, <2>1, <2>3, <2>4, AutomationGoes
  <1>11. ASSUME NEW p \in Process, Au!Kill(p)
         PROVE  AutomationInv'
    <2>1. /\ manager[p].pc # "idle" /\ half' = (half \/ manager[p].pc # "plan")
          /\ UNCHANGED <<automation, exports, mixed>>
          /\ manager' = [manager EXCEPT ![p] = Au!Resting]
      BY <1>11 DEF Au!Kill, Au!Return
    <2>2. AutomationMidway(p)' /\ (~mixed /\ ~half' => ToldRight')
      BY <1>0, <2>1 DEF AutomationMidway, ToldRight
    <2> QED  BY <1>0, <2>1, <2>2, AutomationGoes
  <1> QED
    BY <1>1, <1>2, <1>3, <1>4, <1>5, <1>6, <1>7, <1>8, <1>9, <1>10, <1>11 DEF Au!Next

\* Between calls that came one after another and to their ends, the plan tells where it is
\* exported (automations/manager.ts).
THEOREM ExportsHold == Au!Spec => []Au!ExportsAsTold
  <1>1. AutomationInv /\ [Au!Next]_Au!vars => AutomationInv'
    BY AutomationStepKeeps
  <1>2. AutomationInv => Au!ExportsAsTold
    BY AutomationImplied
  <1> QED  BY <1>1, <1>2, AutomationInitially, PTL DEF Au!Spec

-----------------------------------------------------------------------------
(* AtomicFile.  A call whose value was at the target knows that it was, or *)
(* knows that it cannot know; before that its value was nowhere, and the   *)
(* helper is in the directory that was validated.                          *)

WriterRecord ==
    [pc: Af!HelperPc \cup {"idle", "secured", "failed", "done"}, exclusive: BOOLEAN,
     secured: Dir \cup {None}, pinned: Dir \cup {None}, committed: BOOLEAN, unknown: BOOLEAN,
     parent: BOOLEAN, evidence: BOOLEAN]
TempRecord == [in: Dir, whole: BOOLEAN, aged: BOOLEAN, name: {"generated", "failed"}]
FileRecord == [by: Writer \cup {None}, whole: BOOLEAN]

AtomicTyped ==
    /\ path \in Dir
    /\ file \in [Dir -> FileRecord \cup {None}]
    /\ temp \in [Writer -> TempRecord \cup {None}]
    /\ writer \in [Writer -> WriterRecord]
    /\ outcome \in [Writer -> Af!Outcome \cup {None}]

Unpublished == {"idle", "secured", "sweep", "open", "write", "commit"}

\* How far a call is, and what it will know of what it has done.
Underway(w) ==
    /\ writer[w].pc \in Unpublished => w \notin visible /\ ~ writer[w].committed
    /\ writer[w].pc \in {"idle", "secured"} => temp[w] = None
    /\ writer[w].pc \in Af!HelperPc =>
         writer[w].pinned \in Dir /\ writer[w].pinned = writer[w].secured
    /\ writer[w].pc = "commit" /\ temp[w] # None => temp[w].whole
    /\ writer[w].pc \in {"unlink", "sync"} => w \in visible /\ writer[w].committed
    /\ writer[w].pc = "unlink" => writer[w].exclusive
    /\ writer[w].pc = "sync" => temp[w] = None
    /\ writer[w].pc = "failed" =>
         /\ w \in visible => writer[w].committed \/ writer[w].unknown
         /\ writer[w].committed /\ ~writer[w].exclusive => temp[w] = None

\* What it was told when it had ended.
Returned(w) ==
    /\ outcome[w] # None => writer[w].pc = "done"
    /\ outcome[w] = "committed" => w \in visible
    /\ outcome[w] = "not_committed" => w \notin visible
    /\ outcome[w] # None /\ temp[w] # None => writer[w].evidence

\* A file of ours is whole, where its call was sent.
Placed(d) ==
    file[d] # None =>
        /\ file[d].whole
        /\ file[d].by # None => file[d].by \in visible /\ writer[file[d].by].secured = d

AtomicInv ==
    /\ AtomicTyped
    /\ \A w \in Writer: Underway(w)
    /\ \A w \in Writer: Returned(w)
    /\ \A d \in Dir: Placed(d)
    /\ ~ clobbered

LEMMA AtomicImplied == ASSUME AtomicInv PROVE Af!OutcomesTrue /\ Af!StaysInPlace
  BY DEF AtomicInv, Returned, Placed, Af!OutcomesTrue, Af!StaysInPlace

LEMMA AtomicInitially == ASSUME Af!NoneFits, Af!Init PROVE AtomicInv
  <1>1. \A w \in Writer: temp[w] = None /\ writer[w] = Af!Idle /\ outcome[w] = None
    BY DEF Af!Init
  <1>2. Af!Idle \in WriterRecord /\ Af!Idle.pc = "idle"
    BY DEF Af!Idle, WriterRecord
  <1>3. \A d \in Dir: file[d] \in {None, [by |-> None, whole |-> TRUE]}
    BY DEF Af!Init
  <1>4. AtomicTyped
    <2>1. file \in [Dir -> FileRecord \cup {None}]
      <3>1. {None, [by |-> None, whole |-> TRUE]} \subseteq FileRecord \cup {None}
        BY DEF FileRecord
      <3> QED  BY <3>1 DEF Af!Init
    <2> QED  BY <1>2, <2>1 DEF Af!Init, AtomicTyped
  <1>5. \A w \in Writer: Underway(w) /\ Returned(w)
    BY <1>1, <1>2 DEF Underway, Returned, Af!HelperPc, Af!Init, Af!NoneFits, Af!Outcome, Af!Idle
  <1>6. \A d \in Dir: Placed(d)
    BY <1>3 DEF Placed
  <1> QED  BY <1>4, <1>5, <1>6 DEF AtomicInv, Af!Init

\* A call that goes on and publishes nothing.
LEMMA AtomicGoes ==
    ASSUME Af!NoneFits, AtomicInv, NEW w \in Writer, NEW c \in WriterRecord,
           writer' = [writer EXCEPT ![w] = c],
           temp' \in [Writer -> TempRecord \cup {None}],
           \A u \in Writer: u # w => temp'[u] \in {temp[u], None},
           outcome' \in [Writer -> Af!Outcome \cup {None}],
           \A u \in Writer: u # w => outcome'[u] = outcome[u],
           UNCHANGED <<path, file, visible, clobbered>>,
           c.secured = writer[w].secured \/ w \notin visible,
           Underway(w)', Returned(w)'
    PROVE  AtomicInv'
  <1>1. /\ writer' \in [Writer -> WriterRecord] /\ writer'[w] = c
        /\ \A u \in Writer: u # w => writer'[u] = writer[u]
    BY DEF AtomicInv, AtomicTyped
  <1>2. AtomicTyped'
    BY <1>1 DEF AtomicInv, AtomicTyped
  <1>3. ASSUME NEW u \in Writer, u # w
        PROVE  Underway(u)' /\ Returned(u)'
    BY <1>1, <1>3 DEF AtomicInv, Underway, Returned
  <1>4. ASSUME NEW d \in Dir
        PROVE  Placed(d)'
    <2>1. file[d] # None => file[d].by \in Writer \cup {None}
      BY DEF AtomicInv, AtomicTyped, FileRecord
    <2> QED  BY <1>1, <2>1 DEF AtomicInv, Placed
  <1> QED  BY <1>2, <1>3, <1>4 DEF AtomicInv

LEMMA AtomicStepKeeps ==
    ASSUME Af!NoneFits, AtomicInv, [Af!Next]_Af!vars
    PROVE  AtomicInv'
  <1> USE DEF Af!NoneFits, Af!Outcome
  <1>0. /\ writer \in [Writer -> WriterRecord] /\ temp \in [Writer -> TempRecord \cup {None}]
        /\ outcome \in [Writer -> Af!Outcome \cup {None}]
        /\ file \in [Dir -> FileRecord \cup {None}]
        /\ path \in Dir
        /\ \A w \in Writer: writer[w] \in WriterRecord /\ Underway(w) /\ Returned(w)
    BY DEF AtomicInv, AtomicTyped
  <1>1. CASE UNCHANGED Af!vars
    BY <1>1 DEF Af!vars, AtomicInv, AtomicTyped, Underway, Returned, Placed
  <1>2. ASSUME NEW w \in Writer, NEW exclusive \in BOOLEAN, Af!SecureFilePath(w, exclusive)
        PROVE  AtomicInv'
    <2> DEFINE c == [Af!Idle EXCEPT !.pc = "secured", !.exclusive = exclusive, !.secured = path]
    <2>1. /\ writer[w].pc = "idle" /\ writer' = [writer EXCEPT ![w] = c]
          /\ UNCHANGED <<path, file, temp, outcome, visible, clobbered>>
      BY <1>2 DEF Af!SecureFilePath
    <2>2. Af!Idle \in WriterRecord
      BY DEF Af!Idle, WriterRecord
    <2>3. c \in WriterRecord /\ c.pc = "secured" /\ ~ c.committed
      BY <1>0, <2>2 DEF WriterRecord, Af!Idle
    <2> HIDE DEF c
    <2>4. writer'[w] = c /\ w \notin visible /\ temp[w] = None /\ outcome[w] = None
      BY <1>0, <2>1 DEF Underway, Returned, Unpublished
    <2>5. Underway(w)' /\ Returned(w)'
      BY <1>0, <2>1, <2>3, <2>4 DEF Underway, Returned, Af!HelperPc
    <2> QED  BY <1>0, <2>1, <2>3, <2>4, <2>5, AtomicGoes
  <1>3. ASSUME NEW w \in Writer, Af!Refuse(w)
        PROVE  AtomicInv'
    <2> DEFINE c == [writer[w] EXCEPT !.pc = "done"]
    <2>1. /\ writer[w].pc \in {"idle", "secured"} /\ writer' = [writer EXCEPT ![w] = c]
          /\ outcome' = [outcome EXCEPT ![w] = "not_committed"]
          /\ UNCHANGED <<path, file, temp, visible, clobbered>>
      BY <1>0, <1>3 DEF Af!Refuse, Af!Returns, Af!Goto
    <2>2. c \in WriterRecord /\ c.pc = "done" /\ c.secured = writer[w].secured
      BY <1>0 DEF WriterRecord
    <2> HIDE DEF c
    <2>3. writer'[w] = c /\ outcome'[w] = "not_committed" /\ w \notin visible /\ temp[w] = None
      BY <1>0, <2>1 DEF Underway, Unpublished
    <2>4. Underway(w)' /\ Returned(w)'
      BY <2>1, <2>2, <2>3 DEF Underway, Returned, Af!HelperPc, Unpublished
    <2>5. outcome' \in [Writer -> Af!Outcome \cup {None}]
      BY <1>0, <2>1 DEF Af!Outcome
    <2> QED  BY <1>0, <2>1, <2>2, <2>4, <2>5, AtomicGoes
  <1>4. ASSUME NEW w \in Writer, Af!StartHelper(w)
        PROVE  AtomicInv'
    <2> DEFINE c == [writer[w] EXCEPT !.pc = "sweep", !.pinned = path]
               e == [writer[w] EXCEPT !.pc = "failed"]
    <2>1. /\ writer[w].pc = "secured"
          /\ UNCHANGED <<path, file, temp, outcome, visible, clobbered>>
          /\ \/ path = writer[w].secured
                  /\ writer' = [writer EXCEPT ![w].pc = "sweep", ![w].pinned = path]
             \/ writer' = [writer EXCEPT ![w] = e]
      BY <1>0, <1>4 DEF Af!StartHelper, Af!SameDirectory, Af!Goto
    <2>2. w \notin visible /\ temp[w] = None /\ outcome[w] = None /\ ~ writer[w].committed
      BY <1>0, <2>1 DEF Underway, Returned, Unpublished
    <2>3. CASE path = writer[w].secured
                  /\ writer' = [writer EXCEPT ![w].pc = "sweep", ![w].pinned = path]
      <3>1. writer' = [writer EXCEPT ![w] = c]
        BY <1>0, <2>3
      <3>2. c \in WriterRecord /\ c.pc = "sweep" /\ c.secured = path /\ c.pinned = path
            /\ c.committed = writer[w].committed
        BY <1>0, <2>3 DEF WriterRecord, Af!HelperPc
      <3> HIDE DEF c
      <3>3. writer'[w] = c
        BY <1>0, <3>1
      <3>4. Underway(w)' /\ Returned(w)'
        BY <1>0, <2>1, <2>2, <3>2, <3>3 DEF Underway, Returned, Af!HelperPc
      <3> QED  BY <1>0, <2>1, <2>2, <3>1, <3>2, <3>4, AtomicGoes
    <2>4. CASE writer' = [writer EXCEPT ![w] = e]
      <3>1. e \in WriterRecord /\ e.pc = "failed"
        BY <1>0 DEF WriterRecord
      <3> HIDE DEF e
      <3>2. writer'[w] = e
        BY <1>0, <2>4
      <3>3. Underway(w)' /\ Returned(w)'
        BY <2>1, <2>2, <3>1, <3>2 DEF Underway, Returned, Af!HelperPc, Unpublished
      <3> QED  BY <1>0, <2>1, <2>2, <2>4, <3>1, <3>3, AtomicGoes
    <2> QED  BY <2>1, <2>3, <2>4
  <1>5. ASSUME NEW w \in Writer, Af!CleanupOld(w)
        PROVE  AtomicInv'
    <2> DEFINE c == [writer[w] EXCEPT !.pc = "open"]
    <2>1. /\ writer[w].pc = "sweep" /\ writer' = [writer EXCEPT ![w] = c]
          /\ UNCHANGED <<path, file, outcome, visible, clobbered>>
      BY <1>0, <1>5 DEF Af!CleanupOld, Af!Goto
    <2>2. PICK removed \in SUBSET Af!Sweepable(writer[w].pinned):
            temp' = [u \in Writer |-> IF u \in removed THEN None ELSE temp[u]]
      BY <1>5 DEF Af!CleanupOld
    <2>3. temp' \in [Writer -> TempRecord \cup {None}]
          /\ \A u \in Writer: temp'[u] \in {temp[u], None}
      BY <1>0, <2>2
    <2>4. c \in WriterRecord /\ c.pc = "open" /\ c.secured = writer[w].secured
          /\ c.pinned = writer[w].pinned
          /\ c.committed = writer[w].committed
      BY <1>0 DEF WriterRecord, Af!HelperPc
    <2> HIDE DEF c
    <2>5. writer'[w] = c /\ w \notin visible /\ ~ writer[w].committed /\ outcome[w] = None
          /\ writer[w].pinned \in Dir /\ writer[w].pinned = writer[w].secured
      BY <1>0, <2>1 DEF Underway, Returned, Unpublished, Af!HelperPc
    <2>6. Underway(w)' /\ Returned(w)'
      BY <2>1, <2>4, <2>5 DEF Underway, Returned, Af!HelperPc
    <2> QED  BY <1>0, <2>1, <2>3, <2>4, <2>6, AtomicGoes
  <1>6. ASSUME NEW w \in Writer, Af!OpenTemp(w)
        PROVE  AtomicInv'
    <2> DEFINE c == [writer[w] EXCEPT !.pc = "write"]
    <2>1. /\ writer[w].pc = "open" /\ writer' = [writer EXCEPT ![w] = c]
          /\ temp' = [temp EXCEPT ![w] =
                         [in |-> writer[w].pinned, whole |-> FALSE, aged |-> FALSE,
                          name |-> "generated"]]
          /\ UNCHANGED <<path, file, outcome, visible, clobbered>>
      BY <1>0, <1>6 DEF Af!OpenTemp, Af!Goto
    <2>2. c \in WriterRecord /\ c.pc = "write" /\ c.secured = writer[w].secured
          /\ c.pinned = writer[w].pinned
          /\ c.committed = writer[w].committed
      BY <1>0 DEF WriterRecord, Af!HelperPc
    <2> HIDE DEF c
    <2>3. writer'[w] = c /\ w \notin visible /\ ~ writer[w].committed /\ outcome[w] = None
          /\ writer[w].pinned \in Dir /\ writer[w].pinned = writer[w].secured
      BY <1>0, <2>1 DEF Underway, Returned, Unpublished, Af!HelperPc
    <2>4. Underway(w)' /\ Returned(w)'
      BY <2>1, <2>2, <2>3 DEF Underway, Returned, Af!HelperPc
    <2>5. temp' \in [Writer -> TempRecord \cup {None}]
      BY <1>0, <2>1, <2>3 DEF TempRecord
    <2> QED  BY <1>0, <2>1, <2>2, <2>4, <2>5, AtomicGoes
  <1>7. ASSUME NEW w \in Writer, Af!WriteTemp(w)
        PROVE  AtomicInv'
    <2> DEFINE c == [writer[w] EXCEPT !.pc = "commit"]
    <2>1. /\ writer[w].pc = "write" /\ writer' = [writer EXCEPT ![w] = c]
          /\ temp[w] = None => UNCHANGED temp
          /\ temp[w] # None => temp' = [temp EXCEPT ![w] = [temp[w] EXCEPT !.whole = TRUE]]
          /\ UNCHANGED <<path, file, outcome, visible, clobbered>>
      BY <1>0, <1>7 DEF Af!WriteTemp, Af!Goto
    <2>2. c \in WriterRecord /\ c.pc = "commit" /\ c.secured = writer[w].secured
          /\ c.pinned = writer[w].pinned
          /\ c.committed = writer[w].committed
      BY <1>0 DEF WriterRecord, Af!HelperPc
    <2> HIDE DEF c
    <2>3. writer'[w] = c /\ w \notin visible /\ ~ writer[w].committed /\ outcome[w] = None
          /\ writer[w].pinned \in Dir /\ writer[w].pinned = writer[w].secured
      BY <1>0, <2>1 DEF Underway, Returned, Unpublished, Af!HelperPc
    <2>4. /\ temp' \in [Writer -> TempRecord \cup {None}] /\ (temp'[w] # None => temp'[w].whole)
          /\ \A u \in Writer: u # w => temp'[u] = temp[u]
      <3>1. CASE temp[w] = None
        BY <1>0, <2>1, <3>1
      <3>2. CASE temp[w] # None
        <4> DEFINE t == [temp[w] EXCEPT !.whole = TRUE]
        <4>1. temp[w] \in TempRecord
          BY <1>0, <3>2
        <4>2. t \in TempRecord /\ t.whole
          BY <4>1 DEF TempRecord
        <4>3. temp' = [temp EXCEPT ![w] = t]
          BY <2>1, <3>2
        <4> HIDE DEF t
        <4> QED  BY <1>0, <4>2, <4>3
      <3> QED  BY <3>1, <3>2
    <2>5. Underway(w)' /\ Returned(w)'
      BY <2>1, <2>2, <2>3, <2>4 DEF Underway, Returned, Af!HelperPc
    <2> QED  BY <1>0, <2>1, <2>2, <2>4, <2>5, AtomicGoes
  <1>8. ASSUME NEW w \in Writer, Af!Commit(w)
        PROVE  AtomicInv'
    <2> DEFINE d == writer[w].pinned
    <2>1. /\ writer[w].pc = "commit" /\ UNCHANGED <<path, outcome>>
          /\ w \notin visible /\ outcome[w] = None /\ d \in Dir /\ d = writer[w].secured
      BY <1>0, <1>8 DEF Af!Commit, Underway, Returned, Unpublished, Af!HelperPc
    <2>2. CASE temp[w] = None \/ ~ Af!NameFree(w, d)
      <3> DEFINE c == [writer[w] EXCEPT !.pc = "failed"]
      <3>1. writer' = [writer EXCEPT ![w] = c] /\ UNCHANGED <<file, temp, visible, clobbered>>
        BY <1>0, <1>8, <2>2 DEF Af!Commit, Af!Goto
      <3>2. c \in WriterRecord /\ c.pc = "failed" /\ c.secured = writer[w].secured
            /\ c.exclusive = writer[w].exclusive /\ c.committed = writer[w].committed
        BY <1>0 DEF WriterRecord
      <3> HIDE DEF c
      <3>3. writer'[w] = c
        BY <1>0, <3>1
      <3>4. ~ writer[w].committed
        BY <1>0, <2>1 DEF Underway, Unpublished
      <3>5. Underway(w)' /\ Returned(w)'
        BY <2>1, <3>1, <3>2, <3>3, <3>4 DEF Underway, Returned, Af!HelperPc, Unpublished
      <3> QED  BY <1>0, <2>1, <3>1, <3>2, <3>5, AtomicGoes
    <2>3. CASE temp[w] # None /\ Af!NameFree(w, d)
      <3> DEFINE l == IF writer[w].exclusive THEN "unlink" ELSE "sync"
                 c == [writer[w] EXCEPT !.committed = TRUE, !.pc = l]
      <3>1. /\ file' = [file EXCEPT ![d] = [by |-> w, whole |-> temp[w].whole]]
            /\ visible' = visible \cup {w}
            /\ clobbered' = (clobbered \/ (writer[w].exclusive /\ file[d] # None))
            /\ writer' = [writer EXCEPT ![w].committed = TRUE, ![w].pc = l]
            /\ temp' = IF writer[w].exclusive THEN temp ELSE [temp EXCEPT ![w] = None]
        BY <1>8, <2>3 DEF Af!Commit, Af!Publish
      <3>2. writer' = [writer EXCEPT ![w] = c]
        BY <1>0, <3>1
      <3>3. /\ c \in WriterRecord /\ c.pc = l /\ c.secured = d /\ c.pinned = d /\ c.committed
            /\ c.exclusive = writer[w].exclusive
        BY <1>0, <2>1 DEF WriterRecord, Af!HelperPc
      <3> HIDE DEF c, d
      <3>4. /\ writer' \in [Writer -> WriterRecord] /\ writer'[w] = c
            /\ \A u \in Writer: u # w => writer'[u] = writer[u]
        BY <1>0, <3>2, <3>3
      <3>5. /\ temp' \in [Writer -> TempRecord \cup {None}]
            /\ ~ writer[w].exclusive => temp'[w] = None
            /\ \A u \in Writer: u # w => temp'[u] = temp[u]
        BY <1>0, <3>1
      <3>6. temp[w].whole /\ temp[w] \in TempRecord
        BY <1>0, <2>1, <2>3 DEF Underway
      <3>7. /\ file' \in [Dir -> FileRecord \cup {None}] /\ file'[d] = [by |-> w, whole |-> TRUE]
            /\ \A e \in Dir: e # d => file'[e] = file[e]
        BY <1>0, <2>1, <3>1, <3>6 DEF FileRecord
      <3>8. ~ clobbered'
        BY <2>3, <3>1 DEF AtomicInv, Af!NameFree, d
      <3>9. AtomicTyped'
        BY <1>0, <2>1, <3>4, <3>5, <3>7 DEF AtomicTyped
      <3>10. ASSUME NEW u \in Writer
             PROVE  Underway(u)' /\ Returned(u)'
        <4>1. CASE u = w
          <5>1. /\ l \in {"unlink", "sync"}
                /\ l = "unlink" => c.exclusive
                /\ l = "sync" => temp'[w] = None
            BY <3>3, <3>5
          <5>2. w \in visible' /\ outcome'[w] = None /\ writer'[w].pc = l
            BY <2>1, <3>1, <3>3, <3>4
          <5> QED  BY <2>1, <3>3, <3>4, <4>1, <5>1, <5>2 DEF Underway, Returned, Af!HelperPc,
                                                             Unpublished
        <4>2. CASE u # w
          BY <1>0, <2>1, <3>1, <3>4, <3>5, <4>2 DEF Underway, Returned
        <4> QED  BY <4>1, <4>2
      <3>11. ASSUME NEW e \in Dir
             PROVE  Placed(e)'
        <4>1. CASE e = d
          BY <3>1, <3>3, <3>4, <3>7, <4>1 DEF Placed
        <4>2. CASE e # d
          <5>1. Placed(e) /\ (file[e] # None => file[e].by \in Writer \cup {None})
            BY <1>0 DEF AtomicInv, FileRecord
          <5> QED  BY <2>1, <3>1, <3>4, <3>7, <4>2, <5>1 DEF Placed
        <4> QED  BY <4>1, <4>2
      <3> QED  BY <3>8, <3>9, <3>10, <3>11 DEF AtomicInv
    <2> QED  BY <2>2, <2>3
  <1>9. ASSUME NEW w \in Writer, Af!UnlinkTemp(w)
        PROVE  AtomicInv'
    <2>1. /\ writer[w].pc = "unlink" /\ UNCHANGED <<path, file, outcome, visible, clobbered>>
          /\ w \in visible /\ writer[w].committed /\ writer[w].exclusive /\ outcome[w] = None
          /\ writer[w].pinned \in Dir /\ writer[w].pinned = writer[w].secured
      BY <1>0, <1>9 DEF Af!UnlinkTemp, Underway, Returned, Af!HelperPc
    <2>2. PICK l \in {"failed", "sync"}: Af!Goto(w, l) /\ (l = "failed" => UNCHANGED temp)
              /\ (l = "sync" => temp' = [temp EXCEPT ![w] = None])
      BY <1>9 DEF Af!UnlinkTemp
    <2> DEFINE c == [writer[w] EXCEPT !.pc = l]
    <2>3. writer' = [writer EXCEPT ![w] = c]
      BY <1>0, <2>2 DEF Af!Goto
    <2>4. /\ c \in WriterRecord /\ c.pc = l /\ c.secured = writer[w].secured
          /\ c.pinned = writer[w].pinned
          /\ c.committed /\ c.exclusive
      BY <1>0, <2>1 DEF WriterRecord, Af!HelperPc
    <2> HIDE DEF c
    <2>5. writer'[w] = c
      BY <1>0, <2>3
    <2>6. /\ temp' \in [Writer -> TempRecord \cup {None}] /\ (l = "sync" => temp'[w] = None)
          /\ \A u \in Writer: u # w => temp'[u] = temp[u]
      BY <1>0, <2>2
    <2>7. Underway(w)' /\ Returned(w)'
      BY <2>1, <2>4, <2>5, <2>6 DEF Underway, Returned, Af!HelperPc, Unpublished
    <2> QED  BY <1>0, <2>1, <2>3, <2>4, <2>6, <2>7, AtomicGoes
  <1>10. ASSUME NEW w \in Writer, Af!SyncDirectory(w)
         PROVE  AtomicInv'
    <2> DEFINE c == [writer[w] EXCEPT !.pc = "done"]
    <2>1. /\ writer[w].pc = "sync" /\ writer' = [writer EXCEPT ![w] = c]
          /\ outcome' = [outcome EXCEPT ![w] = "committed"] \/ UNCHANGED outcome
          /\ UNCHANGED <<path, file, temp, visible, clobbered>>
      BY <1>0, <1>10 DEF Af!SyncDirectory, Af!Returns, Af!Goto
    <2>2. c \in WriterRecord /\ c.pc = "done" /\ c.secured = writer[w].secured
      BY <1>0 DEF WriterRecord
    <2> HIDE DEF c
    <2>3. writer'[w] = c /\ w \in visible /\ temp[w] = None /\ outcome[w] = None
      BY <1>0, <2>1 DEF Underway, Returned
    <2>4. outcome' \in [Writer -> Af!Outcome \cup {None}] /\ outcome'[w] \in {None, "committed"}
          /\ \A u \in Writer: u # w => outcome'[u] = outcome[u]
      BY <1>0, <2>1, <2>3 DEF Af!Outcome
    <2>5. Underway(w)' /\ Returned(w)'
      BY <2>1, <2>2, <2>3, <2>4 DEF Underway, Returned, Af!HelperPc, Unpublished
    <2> QED  BY <1>0, <2>1, <2>2, <2>4, <2>5, AtomicGoes
  <1>11. ASSUME NEW w \in Writer, Af!HelperFails(w) \/ Af!HelperKilled(w)
         PROVE  AtomicInv'
    <2> DEFINE c == [writer[w] EXCEPT !.pc = "failed"]
               e == [writer[w] EXCEPT !.pc = "failed", !.committed = FALSE, !.unknown = TRUE]
    <2>1. /\ writer[w].pc \in Af!HelperPc
          /\ UNCHANGED <<path, file, temp, outcome, visible, clobbered>>
          /\ outcome[w] = None
      BY <1>0, <1>11 DEF Af!HelperFails, Af!HelperKilled, Returned, Af!HelperPc
    <2>2. CASE Af!HelperFails(w)
      <3>1. writer' = [writer EXCEPT ![w] = c]
        BY <1>0, <2>2 DEF Af!HelperFails, Af!Goto
      <3>2. c \in WriterRecord /\ c.pc = "failed" /\ c.secured = writer[w].secured
            /\ c.committed = writer[w].committed /\ c.exclusive = writer[w].exclusive
        BY <1>0 DEF WriterRecord
      <3> HIDE DEF c
      <3>3. writer'[w] = c
        BY <1>0, <3>1
      <3>4. Underway(w)' /\ Returned(w)'
        BY <1>0, <2>1, <3>2, <3>3 DEF Underway, Returned, Af!HelperPc, Unpublished
      <3> QED  BY <1>0, <2>1, <3>1, <3>2, <3>4, AtomicGoes
    <2>3. CASE Af!HelperKilled(w)
      <3>1. writer' = [writer EXCEPT ![w] = e]
        BY <1>0, <2>3 DEF Af!HelperKilled, Af!Uncertain
      <3>2. e \in WriterRecord /\ e.pc = "failed" /\ e.secured = writer[w].secured
            /\ ~ e.committed /\ e.unknown
        BY <1>0 DEF WriterRecord
      <3> HIDE DEF e
      <3>3. writer'[w] = e
        BY <1>0, <3>1
      <3>4. Underway(w)' /\ Returned(w)'
        BY <1>0, <2>1, <3>2, <3>3 DEF Underway, Returned, Af!HelperPc, Unpublished
      <3> QED  BY <1>0, <2>1, <3>1, <3>2, <3>4, AtomicGoes
    <2> QED  BY <1>11, <2>2, <2>3
  <1>12. ASSUME NEW w \in Writer, Af!CleanupTemp(w) \/ Af!CleanupFails(w)
         PROVE  AtomicInv'
    <2>1. /\ writer[w].pc = "failed" /\ UNCHANGED <<path, file, visible, clobbered>>
      BY <1>12 DEF Af!CleanupTemp, Af!CleanupFails
    <2>2. PICK proven \in BOOLEAN: Af!Told(w, proven) /\ (~proven => temp'[w] = None)
      BY <1>0, <1>12, <2>1 DEF Af!CleanupTemp, Af!CleanupFails, Underway
    <2>3. /\ temp' \in [Writer -> TempRecord \cup {None}]
          /\ \A u \in Writer: u # w => temp'[u] = temp[u]
      <3>1. CASE UNCHANGED temp
        BY <1>0, <3>1
      <3>2. CASE temp' = [temp EXCEPT ![w] = None]
        BY <1>0, <3>2
      <3>3. CASE temp[w] # None /\ temp' = [temp EXCEPT ![w].name = "failed"]
        BY <1>0, <3>3 DEF TempRecord
      <3> QED  BY <1>12, <3>1, <3>2, <3>3 DEF Af!CleanupTemp, Af!CleanupFails
    <2> DEFINE c == [writer[w] EXCEPT !.pc = "done", !.evidence = proven]
    <2>4. /\ writer' = [writer EXCEPT ![w] = c]
          /\ outcome' = [outcome EXCEPT ![w] = Af!Verdict(w)]
      BY <1>0, <2>2 DEF Af!Told
    <2>5. c \in WriterRecord /\ c.pc = "done" /\ c.secured = writer[w].secured
          /\ c.evidence = proven
      BY <1>0 DEF WriterRecord
    <2> HIDE DEF c
    <2>6. writer'[w] = c
      BY <1>0, <2>4
    <2>7. /\ Af!Verdict(w) \in {"commit_durability_unknown", "not_committed"}
          /\ Af!Verdict(w) = "not_committed" => w \notin visible
      BY <1>0, <2>1 DEF Af!Verdict, Underway
    <2>8. /\ outcome' \in [Writer -> Af!Outcome \cup {None}] /\ outcome'[w] = Af!Verdict(w)
          /\ \A u \in Writer: u # w => outcome'[u] = outcome[u]
      BY <1>0, <2>4, <2>7 DEF Af!Outcome
    <2>9. Underway(w)' /\ Returned(w)'
      BY <2>1, <2>2, <2>5, <2>6, <2>7, <2>8 DEF Underway, Returned, Af!HelperPc, Unpublished
    <2> QED  BY <1>0, <2>1, <2>3, <2>4, <2>5, <2>8, <2>9, AtomicGoes
  <1>13. ASSUME NEW w \in Writer, Af!ParentKilled(w)
         PROVE  AtomicInv'
    <2> DEFINE l == IF writer[w].pc = "secured" THEN "done" ELSE writer[w].pc
               c == [writer[w] EXCEPT !.parent = FALSE, !.pc = l]
    <2>1. /\ writer[w].pc # "done" /\ writer' = [writer EXCEPT ![w] = c]
          /\ UNCHANGED <<path, file, temp, outcome, visible, clobbered>>
      BY <1>0, <1>13 DEF Af!ParentKilled
    <2>2. /\ c \in WriterRecord /\ c.pc = l /\ c.secured = writer[w].secured
          /\ c.pinned = writer[w].pinned
          /\ c.committed = writer[w].committed /\ c.exclusive = writer[w].exclusive
          /\ c.unknown = writer[w].unknown
      BY <1>0 DEF WriterRecord
    <2> HIDE DEF c
    <2>3. writer'[w] = c /\ outcome[w] = None
      BY <1>0, <2>1 DEF Returned
    <2>4. Underway(w)' /\ Returned(w)'
      BY <1>0, <2>1, <2>2, <2>3 DEF Underway, Returned, Af!HelperPc, Unpublished
    <2> QED  BY <1>0, <2>1, <2>2, <2>4, AtomicGoes
  <1>14. CASE Af!Swap
    <2>1. path' \in Dir /\ UNCHANGED <<file, temp, writer, outcome, visible, clobbered>>
      BY <1>14 DEF Af!Swap
    <2> QED  BY <2>1 DEF AtomicInv, AtomicTyped, Underway, Returned, Placed
  <1>15. CASE Af!DayPasses
    <2>1. /\ temp' = [w \in Writer |->
                         IF temp[w] = None THEN None ELSE [temp[w] EXCEPT !.aged = TRUE]]
          /\ UNCHANGED <<path, file, writer, outcome, visible, clobbered>>
      BY <1>15 DEF Af!DayPasses
    <2>2. ASSUME NEW w \in Writer
          PROVE  /\ temp'[w] \in TempRecord \cup {None} /\ (temp[w] = None => temp'[w] = None)
                 /\ temp[w] # None => temp'[w].whole = temp[w].whole
      <3>1. CASE temp[w] = None
        BY <2>1, <3>1
      <3>2. CASE temp[w] # None
        <4> DEFINE t == [temp[w] EXCEPT !.aged = TRUE]
        <4>1. temp[w] \in TempRecord
          BY <1>0, <3>2
        <4>2. t \in TempRecord /\ t.whole = temp[w].whole
          BY <4>1 DEF TempRecord
        <4>3. temp'[w] = t
          BY <2>1, <3>2
        <4> QED  BY <3>2, <4>2, <4>3
      <3> QED  BY <3>1, <3>2
    <2>3. AtomicTyped'
      BY <1>0, <2>1, <2>2 DEF AtomicTyped
    <2>4. ASSUME NEW w \in Writer
          PROVE  Underway(w)' /\ Returned(w)'
      BY <1>0, <2>1, <2>2 DEF Underway, Returned
    <2> QED  BY <2>1, <2>3, <2>4 DEF AtomicInv, Placed
  <1>16. CASE Af!Finished
    BY <1>1, <1>16 DEF Af!Finished
  <1> QED
    BY <1>1, <1>2, <1>3, <1>4, <1>5, <1>6, <1>7, <1>8, <1>9, <1>10, <1>11, <1>12, <1>13, <1>14,
       <1>15, <1>16 DEF Af!Next

\* What a caller is told of its write is the truth, no reader finds half a file, and a write
\* stays in the directory it was validated for (runtime/atomic.ts).
THEOREM OutcomesHold == ASSUME Af!NoneFits PROVE Af!Spec => [](Af!OutcomesTrue /\ Af!StaysInPlace)
  <1>1. AtomicInv /\ [Af!Next]_Af!vars => AtomicInv'
    BY AtomicStepKeeps
  <1>2. AtomicInv => Af!OutcomesTrue /\ Af!StaysInPlace
    BY AtomicImplied
  <1> QED  BY <1>1, <1>2, AtomicInitially, PTL DEF Af!Spec

-----------------------------------------------------------------------------
(* McpConfig.  Between the two writes of a call the entry and its receipt  *)
(* disagree, and the call holds the lock and what it read of both; of what *)
(* a repair read without the lock, what it goes on to use still holds.     *)

McpPc == {"idle", "install", "compare", "target", "receipt", "uninstall", "recompare",
       "restore", "forget", "repair", "wait", "rewrite"}
Holding == {"compare", "target", "receipt", "recompare", "restore", "forget", "rewrite"}
McpRecord ==
    [pc: McpPc, read: Mc!Config \cup {None}, proof: Mc!Receipt \cup {None},
     expected: Launcher \cup {None}, replace: BOOLEAN]

\* An entry that is ours has a receipt that restores the user's; another one is the user's.
Restorable(f, r) ==
    /\ f.others = chosen.others
    /\ Mc!Owned(f, r) => r.previous = chosen.server
    /\ f.server \in Launcher => Mc!Owned(f, r)
    /\ ~ Mc!Owned(f, r) => f.server = chosen.server

\* What a call has read and written of the two files, as long as all is calm.
McpMidway(c) ==
    /\ mcp[c].pc # "idle" => mcp[c].expected \in Launcher
    /\ mcp[c].pc \in Holding \cup {"wait"} => mcp[c].read \in Mc!Config
    /\ mcp[c].pc \in {"recompare", "restore", "forget", "wait", "rewrite"} =>
         mcp[c].proof \in Mc!Receipt
    /\ calm =>
         /\ mcp[c].pc \in {"compare", "target", "recompare", "restore"} =>
              config = mcp[c].read /\ receipt = mcp[c].proof
         /\ mcp[c].pc \in {"receipt", "forget"} => receipt = mcp[c].proof
         /\ mcp[c].pc \in {"compare", "target", "receipt", "recompare", "restore", "forget"} =>
              Restorable(mcp[c].read, mcp[c].proof)
         /\ mcp[c].pc \in {"recompare", "restore", "forget", "wait", "rewrite"} =>
              mcp[c].proof.previous = chosen.server /\ mcp[c].read.others = chosen.others
         /\ mcp[c].pc \in {"receipt", "rewrite"} =>
              config = [mcp[c].read EXCEPT !.server = mcp[c].expected]
         /\ mcp[c].pc = "forget" =>
              config = [mcp[c].read EXCEPT !.server = mcp[c].proof.previous]

McpInv ==
    /\ Mc!TypeOK
    /\ edits \in Nat
    /\ chosen.server \notin Launcher
    /\ \A c \in Caller: mcp[c].pc \in Holding <=> mcpLock = c
    /\ \A c \in Caller: McpMidway(c)
    /\ calm /\ mcpLock = None => Restorable(config, receipt)

LEMMA McpImplied == ASSUME Mc!NoneFits, McpInv PROVE Mc!UserServerKept
  <1>1. SUFFICES ASSUME calm /\ mcpLock = None PROVE Mc!UserServerKept
    BY DEF Mc!UserServerKept
  <1>2. Restorable(config, receipt) /\ launcher \in Launcher
    BY <1>1 DEF McpInv, Mc!TypeOK
  <1> QED  BY <1>1, <1>2 DEF Mc!UserServerKept, Restorable, Mc!Status, Mc!Owned, Mc!NoneFits

LEMMA McpInitially == ASSUME Mc!NoneFits, Mc!OursApart, Mc!Init PROVE McpInv
  <1>1. /\ config \in Mc!Config /\ config.server \in Foreign \cup {None} /\ config.others = 0
    BY DEF Mc!Init, Mc!Config, Mc!Server
  <1>2. /\ Mc!Rest \in McpRecord /\ Mc!Rest.pc = "idle"
    BY DEF Mc!Rest, McpRecord, McpPc
  <1>3. Mc!TypeOK
    BY <1>1, <1>2 DEF Mc!Init, Mc!TypeOK, McpRecord, McpPc
  <1>4. Restorable(config, receipt)
    BY <1>1 DEF Mc!Init, Restorable, Mc!Owned, Mc!NoneFits, Mc!OursApart
  <1>5. \A c \in Caller: mcp[c].pc = "idle"
    BY <1>2 DEF Mc!Init
  <1> QED
    BY <1>1, <1>3, <1>4, <1>5 DEF Mc!Init, McpInv, McpMidway, Holding, Mc!NoneFits, Mc!OursApart

\* A call that goes on or ends; the others are outside the lock.
LEMMA McpGoes ==
    ASSUME Mc!NoneFits, McpInv, NEW c \in Caller, NEW d \in McpRecord,
           mcp' = [mcp EXCEPT ![c] = d],
           \/ mcpLock = None \/ mcpLock = c
           \/ config' = config /\ receipt' = receipt /\ mcpLock' = mcpLock,
           d.pc \in Holding <=> mcpLock' = c,
           mcpLock' = c \/ mcpLock' = (IF mcpLock = c THEN None ELSE mcpLock),
           launcher' = launcher, chosen' = chosen, edits' = edits, calm' => calm,
           config' \in Mc!Config, receipt' \in Mc!Receipt \cup {None},
           McpMidway(c)', calm' /\ mcpLock' = None => Restorable(config', receipt')
    PROVE  McpInv'
  <1>1. mcp \in [Caller -> McpRecord] /\ mcpLock \in Caller \cup {None} /\ chosen \in Mc!Config
    BY DEF McpInv, Mc!TypeOK, McpRecord, McpPc
  <1>2. /\ mcp' \in [Caller -> McpRecord] /\ mcp'[c] = d
        /\ \A e \in Caller: e # c => mcp'[e] = mcp[e]
    BY <1>1
  <1>3. Mc!TypeOK'
    BY <1>1, <1>2 DEF McpInv, Mc!TypeOK, McpRecord, McpPc
  <1>4. ASSUME NEW e \in Caller, e # c
        PROVE  mcp'[e].pc \in Holding <=> mcpLock' = e
    <2>1. mcpLock' = c => mcpLock \in {None, c}
      BY <1>1, <1>4 DEF McpInv, Mc!NoneFits
    <2> QED  BY <1>1, <1>2, <1>4, <2>1 DEF McpInv, Mc!NoneFits
  <1>5. ASSUME NEW e \in Caller, e # c
        PROVE  McpMidway(e)'
    <2>1. UNCHANGED <<config, receipt>> \/ mcp[e].pc \notin Holding
      BY <1>1, <1>5 DEF McpInv, Mc!NoneFits
    <2>2. McpMidway(e) /\ mcp'[e] = mcp[e]
      BY <1>2, <1>5 DEF McpInv
    <2>3. CASE UNCHANGED <<config, receipt>>
      BY <2>2, <2>3 DEF McpMidway, Restorable
    <2>4. CASE mcp[e].pc \notin Holding
      BY <2>2, <2>4 DEF McpMidway, Holding
    <2> QED  BY <2>1, <2>3, <2>4
  <1>6. chosen'.server \notin Launcher /\ edits' \in Nat
    BY DEF McpInv
  <1>7. (calm /\ mcpLock = None => Restorable(config, receipt))'
    BY DEF Restorable
  <1> QED  BY <1>2, <1>3, <1>4, <1>5, <1>6, <1>7 DEF McpInv

\* A call that ends.
LEMMA Ends ==
    ASSUME Mc!NoneFits, McpInv, NEW c \in Caller, Mc!End(c),
           mcpLock = None \/ mcpLock = c \/ (config' = config /\ receipt' = receipt),
           launcher' = launcher, chosen' = chosen, edits' = edits, calm' => calm,
           config' \in Mc!Config, receipt' \in Mc!Receipt \cup {None},
           calm' => \/ Restorable(config', receipt')
                    \/ mcpLock # c /\ config' = config /\ receipt' = receipt
    PROVE  McpInv'
  <1>1. /\ Mc!Rest \in McpRecord /\ Mc!Rest.pc = "idle"
    BY DEF Mc!Rest, McpRecord, McpPc
  <1>2. /\ mcp' = [mcp EXCEPT ![c] = Mc!Rest] /\ mcpLock' = IF mcpLock = c THEN None ELSE mcpLock
    BY DEF Mc!End
  <1>3. c # None /\ mcpLock' # c
    BY <1>2 DEF Mc!NoneFits
  <1>4. mcp'[c] = Mc!Rest
    BY <1>2 DEF McpInv, Mc!TypeOK
  <1>5. McpMidway(c)'
    BY <1>1, <1>4 DEF McpMidway, Holding
  <1>6. calm' /\ mcpLock' = None => Restorable(config', receipt')
    BY <1>2 DEF McpInv
  <1>7. Mc!Rest.pc \notin Holding
    BY <1>1 DEF Holding
  <1> QED  BY <1>1, <1>2, <1>3, <1>5, <1>6, <1>7, McpGoes

LEMMA McpStepKeeps ==
    ASSUME Mc!NoneFits, Mc!OursApart, McpInv, [Mc!Next]_Mc!vars
    PROVE  McpInv'
  <1>0. /\ mcp \in [Caller -> McpRecord] /\ mcpLock \in Caller \cup {None} /\ chosen \in Mc!Config
        /\ config \in Mc!Config /\ receipt \in Mc!Receipt \cup {None} /\ launcher \in Launcher
        /\ edits \in Nat /\ chosen.server \notin Launcher
        /\ \A c \in Caller: mcp[c] \in McpRecord /\ McpMidway(c) /\ c # None
        /\ \A c \in Caller: mcp[c].pc \in Holding <=> mcpLock = c
        /\ calm /\ mcpLock = None => Restorable(config, receipt)
    BY DEF McpInv, Mc!TypeOK, McpRecord, McpPc, Mc!NoneFits
  <1>1. CASE UNCHANGED Mc!vars
    BY <1>1 DEF Mc!vars, Mc!counters, McpInv, Mc!TypeOK, McpMidway, Restorable
  <1>2. ASSUME NEW c \in Caller, NEW asked \in {"install", "uninstall", "repair"},
               NEW replace \in BOOLEAN,
               Mc!Call(c, asked, replace)
        PROVE  McpInv'
    <2> DEFINE d == [Mc!Rest EXCEPT !.pc = asked, !.expected = launcher, !.replace = replace]
    <2>1. /\ mcp[c].pc = "idle" /\ mcp' = [mcp EXCEPT ![c] = d]
          /\ UNCHANGED <<config, receipt, launcher, mcpLock, chosen, calm, edits>>
      BY <1>2 DEF Mc!Call
    <2>2. Mc!Rest \in McpRecord
      BY DEF Mc!Rest, McpRecord, McpPc
    <2>3. d \in McpRecord /\ d.pc = asked /\ d.expected = launcher
      BY <1>0, <2>2 DEF McpRecord, McpPc
    <2> HIDE DEF d
    <2>4. mcp'[c] = d
      BY <1>0, <2>1
    <2>5. McpMidway(c)'
      BY <1>0, <2>1, <2>3, <2>4 DEF McpMidway, Holding
    <2>6. mcpLock # c /\ d.pc \notin Holding
      BY <1>0, <2>1, <2>3 DEF Holding
    <2> QED  BY <1>0, <2>1, <2>3, <2>5, <2>6, McpGoes
  <1>3. ASSUME NEW c \in Caller, Mc!InstallRead(c) \/ Mc!UninstallRead(c)
        PROVE  McpInv'
    <2>1. /\ mcp[c].pc \in {"install", "uninstall"} /\ mcpLock = None
          /\ UNCHANGED <<config, launcher, chosen, calm, edits>>
      BY <1>3 DEF Mc!InstallRead, Mc!UninstallRead, Mc!counters
    <2>2. CASE Mc!End(c)
      <3>1. receipt' \in {receipt, None} /\ (receipt' # receipt => config.server = None)
        BY <1>3, <2>2 DEF Mc!InstallRead, Mc!UninstallRead
      <3>2. calm => Restorable(config', receipt')
        BY <1>0, <2>1, <3>1 DEF Restorable, Mc!Owned, Mc!NoneFits
      <3> QED  BY <1>0, <2>1, <2>2, <3>1, <3>2, Ends DEF McpInv, Mc!TypeOK
    <2>3. CASE ~ Mc!End(c)
      <3>1. PICK l \in {"compare", "recompare"}:
              /\ mcpLock' = c
              /\ mcp' = [mcp EXCEPT ![c].pc = l, ![c].read = config, ![c].proof = receipt]
              /\ l = "recompare" => receipt # None /\ Mc!Owned(config, receipt)
        BY <1>3, <2>3 DEF Mc!InstallRead, Mc!UninstallRead
      <3>2. UNCHANGED receipt
        BY <1>3, <2>3 DEF Mc!InstallRead, Mc!UninstallRead
      <3> DEFINE d == [mcp[c] EXCEPT !.pc = l, !.read = config, !.proof = receipt]
      <3>3. mcp' = [mcp EXCEPT ![c] = d]
        BY <1>0, <3>1
      <3>4. d \in McpRecord /\ d.pc = l /\ d.read = config /\ d.proof = receipt
            /\ d.expected = mcp[c].expected
        BY <1>0 DEF McpRecord, McpPc
      <3> HIDE DEF d
      <3>5. mcp'[c] = d
        BY <1>0, <3>3
      <3>6. l = "recompare" /\ calm => receipt \in Mc!Receipt /\ receipt.previous = chosen.server
        BY <1>0, <2>1, <3>1 DEF Restorable
      <3>7. calm => Restorable(config, receipt) /\ config.others = chosen.others
        BY <1>0, <2>1 DEF Restorable
      <3>8. McpMidway(c)'
        BY <1>0, <2>1, <3>1, <3>2, <3>4, <3>5, <3>6, <3>7 DEF McpMidway, Holding, Restorable
      <3>9. d.pc \in Holding
        BY <3>4 DEF Holding
      <3> QED  BY <1>0, <2>1, <3>1, <3>2, <3>3, <3>4, <3>8, <3>9, McpGoes
    <2> QED  BY <2>2, <2>3
  <1>4. ASSUME NEW c \in Caller, Mc!InstallCompare(c) \/ Mc!UninstallCompare(c)
        PROVE  McpInv'
    <2>1. /\ mcp[c].pc \in {"compare", "recompare"} /\ mcpLock = c
          /\ UNCHANGED <<config, receipt, launcher, chosen, calm, edits>>
      BY <1>0, <1>4 DEF Mc!InstallCompare, Mc!UninstallCompare, Mc!counters, Holding
    <2>2. calm => Restorable(config, receipt)
      BY <1>0, <2>1 DEF McpMidway
    <2>3. CASE Mc!End(c)
      BY <1>0, <2>1, <2>2, <2>3, Ends DEF McpInv, Mc!TypeOK, Restorable
    <2>4. CASE ~ Mc!End(c)
      <3>1. PICK l \in {"target", "restore"}:
              /\ Mc!Goto(c, l) /\ UNCHANGED mcpLock
              /\ (l = "target") = (mcp[c].pc = "compare")
        BY <1>4, <2>4 DEF Mc!InstallCompare, Mc!UninstallCompare
      <3> DEFINE d == [mcp[c] EXCEPT !.pc = l]
      <3>2. mcp' = [mcp EXCEPT ![c] = d]
        BY <1>0, <3>1 DEF Mc!Goto
      <3>3. d \in McpRecord /\ d.pc = l /\ d.read = mcp[c].read /\ d.proof = mcp[c].proof
            /\ d.expected = mcp[c].expected
        BY <1>0 DEF McpRecord, McpPc
      <3> HIDE DEF d
      <3>4. mcp'[c] = d
        BY <1>0, <3>2
      <3>5. McpMidway(c)'
        BY <1>0, <2>1, <3>1, <3>3, <3>4 DEF McpMidway, Holding, Restorable
      <3>6. d.pc \in Holding
        BY <3>3 DEF Holding
      <3> QED  BY <1>0, <2>1, <3>1, <3>2, <3>3, <3>5, <3>6, McpGoes DEF McpInv, Mc!TypeOK
    <2> QED  BY <2>3, <2>4
  <1>5. ASSUME NEW c \in Caller,
               Mc!InstallTarget(c) \/ Mc!UninstallTarget(c) \/ Mc!RepairTarget(c)
        PROVE  McpInv'
    <2>1. PICK l \in {"receipt", "forget", "rewrite"}:
            /\ Mc!Goto(c, l)
            /\ mcp[c].pc = (CASE l = "receipt" -> "target"
                             [] l = "forget" -> "restore"
                             [] OTHER -> "wait")
            /\ Mc!WriteServer(c, IF l = "forget" THEN mcp[c].proof.previous ELSE mcp[c].expected)
            /\ mcpLock' = c /\ mcpLock \in {None, c}
      BY <1>0, <1>5 DEF Mc!InstallTarget, Mc!UninstallTarget, Mc!RepairTarget, Holding
    <2>2. UNCHANGED <<receipt, launcher, chosen, calm, edits>>
      BY <1>5 DEF Mc!InstallTarget, Mc!UninstallTarget, Mc!RepairTarget, Mc!counters
    <2> DEFINE d == [mcp[c] EXCEPT !.pc = l]
               server == IF l = "forget" THEN mcp[c].proof.previous ELSE mcp[c].expected
    <2>3. mcp' = [mcp EXCEPT ![c] = d] /\ config' = [mcp[c].read EXCEPT !.server = server]
      BY <1>0, <2>1 DEF Mc!Goto, Mc!WriteServer
    <2>4. d \in McpRecord /\ d.pc = l /\ d.read = mcp[c].read /\ d.proof = mcp[c].proof
          /\ d.expected = mcp[c].expected
      BY <1>0 DEF McpRecord, McpPc
    <2>5. /\ mcp[c].read \in Mc!Config /\ mcp[c].expected \in Launcher
          /\ l # "receipt" => mcp[c].proof \in Mc!Receipt
      BY <1>0, <2>1 DEF McpMidway, Holding
    <2>6. server \in Mc!Server
      BY <2>5 DEF Mc!Server, Mc!Receipt
    <2>7. config' \in Mc!Config
      BY <2>3, <2>5, <2>6 DEF Mc!Config
    <2>8. d.pc \in Holding
      BY <2>4 DEF Holding
    <2> HIDE DEF d
    <2>9. mcp'[c] = d
      BY <1>0, <2>3
    <2>10. McpMidway(c)'
      <3>1. CASE l = "receipt"
        BY <1>0, <2>1, <2>2, <2>3, <2>4, <2>5, <2>9, <3>1 DEF McpMidway, Holding, Restorable
      <3>2. CASE l = "forget"
        BY <1>0, <2>1, <2>2, <2>3, <2>4, <2>5, <2>9, <3>2 DEF McpMidway, Holding, Restorable
      <3>3. CASE l = "rewrite"
        BY <1>0, <2>1, <2>2, <2>3, <2>4, <2>5, <2>9, <3>3 DEF McpMidway, Holding, Restorable
      <3> QED  BY <3>1, <3>2, <3>3
    <2> QED  BY <1>0, <2>1, <2>2, <2>3, <2>4, <2>7, <2>8, <2>10, McpGoes DEF McpInv, Mc!TypeOK
  <1>6. ASSUME NEW c \in Caller, Mc!InstallReceipt(c)
        PROVE  McpInv'
    <2> DEFINE r == [installed |-> mcp[c].expected, previous |-> Mc!Rollback(mcp[c])]
    <2>1. /\ mcp[c].pc = "receipt" /\ mcpLock = c /\ receipt' = r /\ Mc!End(c)
          /\ UNCHANGED <<config, launcher, chosen, calm, edits>>
      BY <1>0, <1>6 DEF Mc!InstallReceipt, Mc!counters, Holding
    <2>2. /\ mcp[c].read \in Mc!Config /\ mcp[c].expected \in Launcher
          /\ mcp[c].proof \in Mc!Receipt \cup {None}
      BY <1>0, <2>1 DEF McpMidway, Holding, McpRecord
    <2>3. Mc!Rollback(mcp[c]) \in Mc!Server
      BY <2>2 DEF Mc!Rollback, Mc!Owned, Mc!Config, Mc!Receipt
    <2>4. r \in Mc!Receipt
      BY <2>2, <2>3 DEF Mc!Receipt
    <2>5. ASSUME calm
          PROVE  Restorable(config, r)
      <3>1. Restorable(mcp[c].read, mcp[c].proof)
            /\ config = [mcp[c].read EXCEPT !.server = mcp[c].expected]
        BY <1>0, <2>1, <2>5 DEF McpMidway
      <3>2. config.others = chosen.others /\ config.server = mcp[c].expected
        BY <2>2, <3>1 DEF Restorable, Mc!Config
      <3>3. Mc!Rollback(mcp[c]) = chosen.server
        BY <3>1 DEF Restorable, Mc!Rollback
      <3> QED  BY <2>2, <2>4, <3>2, <3>3 DEF Restorable, Mc!Owned, Mc!NoneFits
    <2> HIDE DEF r
    <2>6. calm' => Restorable(config', receipt')
      BY <2>1, <2>5 DEF Restorable
    <2> QED  BY <1>0, <2>1, <2>4, <2>6, Ends DEF McpInv, Mc!TypeOK
  <1>7. ASSUME NEW c \in Caller, Mc!InstallReceiptFails(c) \/ Mc!UninstallReceiptFails(c)
        PROVE  McpInv'
    <2>1. /\ mcp[c].pc \in {"receipt", "forget"} /\ mcpLock = c /\ config' = mcp[c].read
          /\ Mc!End(c)
          /\ UNCHANGED <<receipt, launcher, chosen, calm, edits>>
      BY <1>0, <1>7 DEF Mc!InstallReceiptFails, Mc!UninstallReceiptFails, Holding
    <2>2. mcp[c].read \in Mc!Config
      BY <1>0, <2>1 DEF McpMidway, Holding
    <2>3. calm' => Restorable(config', receipt')
      BY <1>0, <2>1 DEF McpMidway, Restorable
    <2> QED  BY <1>0, <2>1, <2>2, <2>3, Ends DEF McpInv, Mc!TypeOK
  <1>8. ASSUME NEW c \in Caller, Mc!UninstallReceipt(c)
        PROVE  McpInv'
    <2>1. /\ mcp[c].pc = "forget" /\ mcpLock = c /\ receipt' = None /\ Mc!End(c)
          /\ UNCHANGED <<config, launcher, chosen, calm, edits>>
      BY <1>0, <1>8 DEF Mc!UninstallReceipt, Mc!counters, Holding
    <2>2. ASSUME calm
          PROVE  Restorable(config, None)
      <3>1. /\ config = [mcp[c].read EXCEPT !.server = mcp[c].proof.previous]
            /\ mcp[c].proof.previous = chosen.server /\ mcp[c].read.others = chosen.others
            /\ mcp[c].read \in Mc!Config
        BY <1>0, <2>1, <2>2 DEF McpMidway, Holding
      <3>2. config.server = chosen.server /\ config.others = chosen.others
        BY <3>1 DEF Mc!Config
      <3> QED  BY <1>0, <3>2 DEF Restorable, Mc!Owned
    <2>3. calm' => Restorable(config', receipt')
      BY <2>1, <2>2 DEF Restorable
    <2> QED  BY <1>0, <2>1, <2>3, Ends DEF McpInv, Mc!TypeOK
  <1>9. ASSUME NEW c \in Caller, Mc!RepairRead(c)
        PROVE  McpInv'
    <2>1. /\ mcp[c].pc = "repair" /\ mcpLock # c /\ calm' = (calm /\ mcpLock = None)
          /\ UNCHANGED <<config, receipt, launcher, chosen, edits>>
      BY <1>0, <1>9 DEF Mc!RepairRead, Mc!counters, Holding
    <2>2. CASE Mc!End(c)
      BY <1>0, <2>1, <2>2, Ends DEF McpInv, Mc!TypeOK
    <2>3. CASE ~ Mc!End(c)
      <3>1. /\ Mc!Status(config, receipt, mcp[c].expected) = "owned-drifted" /\ UNCHANGED mcpLock
            /\ mcp' = [mcp EXCEPT ![c].pc = "wait", ![c].read = config, ![c].proof = receipt]
        BY <1>9, <2>3 DEF Mc!RepairRead
      <3>2. Mc!Owned(config, receipt)
        BY <3>1 DEF Mc!Status
      <3> DEFINE d == [mcp[c] EXCEPT !.pc = "wait", !.read = config, !.proof = receipt]
      <3>3. mcp' = [mcp EXCEPT ![c] = d]
        BY <1>0, <3>1
      <3>4. d \in McpRecord /\ d.pc = "wait" /\ d.read = config /\ d.proof = receipt
            /\ d.expected = mcp[c].expected
        BY <1>0 DEF McpRecord, McpPc
      <3> HIDE DEF d
      <3>5. mcp'[c] = d
        BY <1>0, <3>3
      <3>6. receipt \in Mc!Receipt
        BY <1>0, <3>2 DEF Mc!Owned
      <3>7. calm' => receipt.previous = chosen.server /\ config.others = chosen.others
        BY <1>0, <2>1, <3>2 DEF Restorable
      <3>8. McpMidway(c)'
        BY <1>0, <2>1, <3>4, <3>5, <3>6, <3>7 DEF McpMidway, Holding
      <3>9. d.pc \notin Holding
        BY <3>4 DEF Holding
      <3>10. calm' /\ mcpLock' = None => Restorable(config', receipt')
        BY <1>0, <2>1, <3>1 DEF Restorable
      <3> QED  BY <1>0, <2>1, <3>1, <3>3, <3>4, <3>8, <3>9, <3>10, McpGoes DEF McpInv, Mc!TypeOK
    <2> QED  BY <2>2, <2>3
  <1>10. ASSUME NEW c \in Caller, Mc!RepairReceipt(c)
         PROVE  McpInv'
    <2> DEFINE r == [installed |-> mcp[c].expected, previous |-> mcp[c].proof.previous]
    <2>1. /\ mcp[c].pc = "rewrite" /\ mcpLock = c /\ receipt' = r /\ Mc!End(c)
          /\ UNCHANGED <<config, launcher, chosen, calm, edits>>
      BY <1>0, <1>10 DEF Mc!RepairReceipt, Mc!counters, Holding
    <2>2. /\ mcp[c].read \in Mc!Config /\ mcp[c].expected \in Launcher
          /\ mcp[c].proof \in Mc!Receipt
      BY <1>0, <2>1 DEF McpMidway, Holding
    <2>3. r \in Mc!Receipt
      BY <2>2 DEF Mc!Receipt
    <2>4. ASSUME calm
          PROVE  Restorable(config, r)
      <3>1. /\ config = [mcp[c].read EXCEPT !.server = mcp[c].expected]
            /\ mcp[c].proof.previous = chosen.server /\ mcp[c].read.others = chosen.others
        BY <1>0, <2>1, <2>4 DEF McpMidway
      <3>2. config.others = chosen.others /\ config.server = mcp[c].expected
        BY <2>2, <3>1 DEF Mc!Config
      <3> QED  BY <2>2, <2>3, <3>1, <3>2 DEF Restorable, Mc!Owned, Mc!NoneFits
    <2> HIDE DEF r
    <2>5. calm' => Restorable(config', receipt')
      BY <2>1, <2>4 DEF Restorable
    <2> QED  BY <1>0, <2>1, <2>3, <2>5, Ends DEF McpInv, Mc!TypeOK
  <1>11. ASSUME NEW c \in Caller, Mc!Kill(c)
         PROVE  McpInv'
    <2>1. calm' = FALSE /\ Mc!End(c) /\ UNCHANGED <<config, receipt, launcher, chosen, edits>>
      BY <1>11 DEF Mc!Kill
    <2> QED  BY <1>0, <2>1, Ends
  <1>12. ASSUME NEW server \in Foreign \cup {None, config.server}, Mc!Edit(server)
         PROVE  McpInv'
    <2>1. /\ config' = [server |-> server, others |-> edits + 1] /\ edits' = edits + 1
          /\ chosen' = [server |-> IF server \in Launcher THEN chosen.server ELSE server,
                        others |-> edits + 1]
          /\ calm' = (calm /\ Mc!Idle)
          /\ UNCHANGED <<receipt, launcher, mcpLock, mcp>>
      BY <1>12 DEF Mc!Edit
    <2>2. server \in Mc!Server /\ chosen.server \in Mc!Server
      BY <1>0 DEF Mc!Server, Mc!Config
    <2>3. config' \in Mc!Config /\ chosen' \in Mc!Config /\ edits' \in Nat
      BY <1>0, <2>1, <2>2 DEF Mc!Config
    <2>4. Mc!TypeOK'
      BY <2>1, <2>3 DEF McpInv, Mc!TypeOK
    <2>5. chosen'.server \notin Launcher
      BY <1>0, <2>1
    <2>6. \A c \in Caller: McpMidway(c)'
      BY <1>0, <2>1 DEF McpMidway, Mc!Idle, Holding
    <2>7. ASSUME calm', mcpLock = None
          PROVE  Restorable(config, receipt)'
      <3>1. Restorable(config, receipt)
        BY <1>0, <2>1, <2>7
      <3>2. config'.server = server /\ config'.others = chosen'.others
        BY <2>1
      <3>3. CASE server \in Launcher
        <4>1. server = config.server /\ chosen'.server = chosen.server
          BY <2>1, <3>3 DEF Mc!NoneFits, Mc!OursApart
        <4> QED  BY <2>1, <3>1, <3>2, <3>3, <4>1 DEF Restorable, Mc!Owned
      <3>4. CASE server \notin Launcher
        <4>1. ~ (receipt # None /\ server = receipt.installed)
          BY <1>0, <3>4 DEF Mc!Receipt
        <4>2. chosen'.server = server
          BY <2>1, <3>4
        <4> QED  BY <2>1, <3>2, <3>4, <4>1, <4>2 DEF Restorable, Mc!Owned
      <3> QED  BY <3>3, <3>4
    <2> QED  BY <1>0, <2>1, <2>3, <2>4, <2>5, <2>6, <2>7 DEF McpInv
  <1>13. ASSUME NEW l \in Launcher, Mc!Move(l)
         PROVE  McpInv'
    <2>1. launcher' = l /\ UNCHANGED <<config, receipt, mcpLock, mcp, chosen, calm, edits>>
      BY <1>13 DEF Mc!Move
    <2> QED  BY <2>1 DEF McpInv, Mc!TypeOK, McpMidway, Restorable
  <1> QED
    BY <1>1, <1>2, <1>3, <1>4, <1>5, <1>6, <1>7, <1>8, <1>9, <1>10, <1>11, <1>12,
       <1>13 DEF Mc!Next

\* What status reports between two calls is true, and the server the user had can be had back,
\* unless a call was killed, the user edited the file under one, or a repair read between the
\* writes of another (mcp/lifecycle.ts).
THEOREM ServerHeld == ASSUME Mc!NoneFits, Mc!OursApart PROVE Mc!Spec => []Mc!UserServerKept
  <1>1. McpInv /\ [Mc!Next]_Mc!vars => McpInv'
    BY McpStepKeeps
  <1>2. McpInv => Mc!UserServerKept
    BY McpImplied
  <1> QED  BY <1>1, <1>2, McpInitially, PTL DEF Mc!Spec
=============================================================================
