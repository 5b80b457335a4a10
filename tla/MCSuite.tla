------------------------------- MODULE MCSuite -------------------------------
(***************************************************************************)
(* Checks the pure parts of the code against reference definitions, and   *)
(* medger with one and with two goroutines.  One behaviour exercises one  *)
(* of ten callers, chosen in the initial state:                          *)
(*   "keys"      MCEdgerKeys: calls of BuildEdgesForPairs;                 *)
(*   "traversal" MCEdgerTraversal: Load* queries on a relation graph;      *)
(*   "tlv"       the Tlv writer and reader (Tlv's Spec);                   *)
(*   "array"     a caller of string_array building two slices xs, ys one   *)
(*               value at a time and a chunk size;                         *)
(*   "number"    a caller of bijective's Encode/Decode picking n;          *)
(*   "serial"    MCMedger with one goroutine (its refinement of EdgeStore);*)
(*   "medger"    MCMedger with two goroutines;                             *)
(*   "throttle"  Throttle's caller starting three tasks, two of which fail,*)
(*               with max = 2;                                             *)
(*   "fanin"     FanIn: Add(a), Add(b), Remove(a), Close() while a and b's *)
(*               producers send and a reader reads;                        *)
(*   "logrotator" LogRotator: three Writes, two SIGHUPs, Rotate and Close.  *)
(* The variables of the callers not chosen keep their initial values.      *)
(***************************************************************************)
EXTENDS Tlv, FiniteSets

LOCAL Seqs == INSTANCE SequencesExt

CONSTANTS
    Strs,           \* the strings (as byte-order ranks) slices are made of
    MaxLen,         \* bound on the length of xs and ys
    Sizes,          \* the chunk sizes a caller passes
    MaxN,           \* the largest n the number caller encodes
    Letters,        \* the converter's Alphabet
    KeySize,        \* edger's id width
    StorePrefix,    \* edger's store prefix
    Bytes, RelTypes, BadIds, MaxArgs,   \* the keys caller's inputs (MCEdgerKeys)
    TIds, Rel1, Levels, Graphs,         \* the traversal caller's (MCEdgerTraversal)
    MClients, MNone                     \* the medger goroutines, and None

SA == INSTANCE StringArray
BJ == INSTANCE Bijective WITH Alphabet <- Letters

VARIABLES task, xs, ys, size, n,
          relType, pairs, kout,     \* MCEdgerKeys' caller (its out)
          rel, query, result        \* MCEdgerTraversal's caller

KC == INSTANCE MCEdgerKeys WITH out <- kout
TC == INSTANCE MCEdgerTraversal WITH Ids <- TIds

\* The two medger instances: s* with one goroutine, c* with MClients.
VARIABLES sTree, sWriter, sPc, sOp, sDi, sKeys, sRet, sBase,
          cTree, cWriter, cPc, cOp, cDi, cKeys, cRet, cBase

MC == INSTANCE MedgerCalls
MS == INSTANCE MCMedger
        WITH Clients <- {CHOOSE c \in MClients : TRUE}, None <- MNone,
             Ops <- MC!MCOps, KeySize <- 2, Px <- MC!MCPx, PxSpare <- 0, RelTypes <- {0, 1}, Ids <- MC!MCIds,
             tree <- sTree, writer <- sWriter, pc <- sPc, op <- sOp,
             diPairs <- sDi, keys <- sKeys, ret <- sRet, base <- sBase
MM == INSTANCE MCMedger
        WITH Clients <- MClients, None <- MNone,
             Ops <- MC!MCOps, KeySize <- 2, Px <- MC!MCPx, PxSpare <- 0, RelTypes <- {0, 1}, Ids <- MC!MCIds,
             tree <- cTree, writer <- cWriter, pc <- cPc, op <- cOp,
             diPairs <- cDi, keys <- cKeys, ret <- cRet, base <- cBase

\* The throttle caller: max 2, the first task succeeds, the other two fail.
VARIABLES tChLen, tErrCh, tWg, tMpc, tNext, tResult, tDoErr, tWpc

TTasks == <<"nil", "e1", "e2">>
TH == INSTANCE Throttle
        WITH Max <- 2, Tasks <- TTasks, NoErr <- "nil",
             chLen <- tChLen, errCh <- tErrCh, wg <- tWg, mpc <- tMpc, next <- tNext,
             result <- tResult, doErr <- tDoErr, wpc <- tWpc
tVars == <<tChLen, tErrCh, tWg, tMpc, tNext, tResult, tDoErr, tWpc>>

\* The fan-in caller: out of size 1, two values per source.
VARIABLES fListeners, fClosers, fFwd, fHeld, fWg, fOut, fSent, fSrcClosed, fIp, fCpc

FScript == <<[op |-> "add", src |-> "a"], [op |-> "add", src |-> "b"],
             [op |-> "remove", src |-> "a"], [op |-> "close", src |-> "-"]>>
FI == INSTANCE FanIn
        WITH Sources <- {"a", "b"}, NumVals <- 2, Size <- 1, Script <- FScript, None <- MNone,
             listeners <- fListeners, closers <- fClosers, fwd <- fFwd, held <- fHeld,
             wg <- fWg, out <- fOut, sent <- fSent, srcClosed <- fSrcClosed, ip <- fIp, cpc <- fCpc
fVars == <<fListeners, fClosers, fFwd, fHeld, fWg, fOut, fSent, fSrcClosed, fIp, fCpc>>

\* The log rotator's callers: three messages, two SIGHUPs.
VARIABLES lHandle, lFile, lRotated, lBuff, lClosed, lLpc, lMsg, lTaken, lWi, lWpc,
          lSigs, lSigLeft, lRpc, lCpc, lLost, lFailed

LR == INSTANCE LogRotator
        WITH NumMsgs <- 3, MaxSigs <- 2,
             handle <- lHandle, file <- lFile, rotated <- lRotated, buff <- lBuff,
             closed <- lClosed, lpc <- lLpc, msg <- lMsg, taken <- lTaken, wi <- lWi,
             wpc <- lWpc, sigs <- lSigs, sigLeft <- lSigLeft, rpc <- lRpc, cpc <- lCpc,
             lost <- lLost, failed <- lFailed
lVars == <<lHandle, lFile, lRotated, lBuff, lClosed, lLpc, lMsg, lTaken, lWi, lWpc,
           lSigs, lSigLeft, lRpc, lCpc, lLost, lFailed>>

\* The conder caller: three goroutines in Wait, two Next/Done calls.
VARIABLES cdPc, cdList, cdOps, cdReleased

CWaiters == {"w1", "w2", "w3"}
CD == INSTANCE Conder
        WITH Waiters <- CWaiters, MaxOps <- 2,
             pc <- cdPc, list <- cdList, ops <- cdOps, released <- cdReleased
cdVars == <<cdPc, cdList, cdOps, cdReleased>>

\* The listener_closer callers: two goroutines calling Close.
VARIABLES lcPc, lcDone, lcMu, lcE, lcCloses, lcRet

LC == INSTANCE ListenerCloser
        WITH Callers <- {"g1", "g2"}, Errs <- {"nil", "closed"}, NoErr <- "nil",
             pc <- lcPc, done <- lcDone, mu <- lcMu, e <- lcE, closes <- lcCloses, ret <- lcRet
lcVars == <<lcPc, lcDone, lcMu, lcE, lcCloses, lcRet>>

\* The notif broker: two subscribers and one Broadcast over names x and y.
VARIABLES bChans, bMade, bChName, bChCancelled, bRunning, bAud, bSubQ, bUnsubQ,
          bBSub, bEmpty, bCpc, bCChan, bCClosed, bBcast

BK == INSTANCE NotifBroker
        WITH Names <- {"x", "y"}, Clients <- {"k1", "k2"}, EmptyCap <- 10,
             chans <- bChans, made <- bMade, chName <- bChName, chCancelled <- bChCancelled,
             running <- bRunning, aud <- bAud, subQ <- bSubQ, unsubQ <- bUnsubQ,
             bSub <- bBSub, empty <- bEmpty, cpc <- bCpc, cChan <- bCChan,
             cClosed <- bCClosed, bcast <- bBcast
bkVars == <<bChans, bMade, bChName, bChCancelled, bRunning, bAud, bSubQ, bUnsubQ,
            bBSub, bEmpty, bCpc, bCChan, bCClosed, bBcast>>

newVars == <<cdVars, lcVars, bkVars>>

sVars == <<sTree, sWriter, sPc, sOp, sDi, sKeys, sRet, sBase>>
cVars == <<cTree, cWriter, cPc, cOp, cDi, cKeys, cRet, cBase>>

otherVars == <<relType, pairs, kout, rel, query, result, sVars, cVars, tVars, fVars, lVars>>
oldVars == <<vars, task, xs, ys, size, n, otherVars>>
mcVars == <<oldVars, newVars>>

\* The byte slices the Tlv caller writes: up to two bytes over {0, 200}.
MCRecords == {<<>>, <<0>>, <<200>>, <<0, 200>>, <<200, 200>>}
\* A three-letter ASCII alphabet.
MCLetters == <<"x", "y", "z">>
\* The edger inputs of MCEdgerKeys.cfg and MCEdgerTraversal.cfg.
MCPrefix == <<7>>
MCBadIds == {<<0, 0>>, <<1>>, <<0, 0, 0, 0>>}
MCTIds == {<<0, 0, 1>>, <<0, 1, 0>>, <<1, 0, 0>>}
MCRel1 == {<<<<1, 0, 0>>, <<0, 0, 1>>>>}
MCGraphs == SUBSET (TIds \X TIds)

MCInit ==
    /\ Init
    /\ task \in {"keys", "traversal", "tlv", "array", "number", "serial", "medger", "throttle", "fanin", "logrotator",
                  "conder", "closer", "broker"}
    /\ xs = <<>> /\ ys = <<>> /\ size = 0 /\ n = 0
    /\ KC!Init /\ (task # "keys" => relType = CHOOSE r \in RelTypes : TRUE)
    /\ TC!Init /\ (task # "traversal" => rel = {})
    /\ MS!Init /\ MM!Init /\ TH!Init /\ FI!Init /\ LR!Init
    /\ CD!Init /\ LC!Init /\ BK!Init

ArrayStep ==
    /\ \/ \E v \in Strs : Len(xs) < MaxLen /\ xs' = Append(xs, v) /\ UNCHANGED <<ys, size>>
       \/ \E v \in Strs : Len(ys) < MaxLen /\ ys' = Append(ys, v) /\ UNCHANGED <<xs, size>>
       \/ \E s \in Sizes : size' = s /\ UNCHANGED <<xs, ys>>
       \/ xs' = <<>> /\ ys' = <<>> /\ UNCHANGED size
    /\ UNCHANGED n

OldNext ==
    \/ task = "keys" /\ KC!Next
       /\ UNCHANGED <<vars, task, xs, ys, size, n, rel, query, result, sVars, cVars, tVars, fVars, lVars>>
    \/ task = "traversal" /\ TC!Next
       /\ UNCHANGED <<vars, task, xs, ys, size, n, relType, pairs, kout, sVars, cVars, tVars, fVars, lVars>>
    \/ task = "tlv" /\ Next /\ UNCHANGED <<task, xs, ys, size, n, otherVars>>
    \/ task = "array" /\ ArrayStep /\ UNCHANGED <<vars, task, otherVars>>
    \/ task = "number" /\ \E k \in 0..MaxN : n' = k
                       /\ UNCHANGED <<vars, task, xs, ys, size, otherVars>>
    \/ task = "serial" /\ MS!Next
       /\ UNCHANGED <<vars, task, xs, ys, size, n, relType, pairs, kout, rel, query, result, cVars, tVars, fVars, lVars>>
    \/ task = "medger" /\ MM!Next
       /\ UNCHANGED <<vars, task, xs, ys, size, n, relType, pairs, kout, rel, query, result, sVars, tVars, fVars, lVars>>
    \/ task = "throttle" /\ TH!Next
       /\ UNCHANGED <<vars, task, xs, ys, size, n, relType, pairs, kout, rel, query, result, sVars, cVars, fVars, lVars>>
    \* The throttle caller has returned from Finish and its tasks have ended.
    \/ task = "throttle" /\ tMpc = "end" /\ \A i \in DOMAIN TTasks : tWpc[i] \in {"none", "end"}
       /\ UNCHANGED mcVars
    \/ task = "fanin" /\ FI!Next
       /\ UNCHANGED <<vars, task, xs, ys, size, n, relType, pairs, kout, rel, query, result, sVars, cVars, tVars, lVars>>
    \* Close() has returned and the reader has emptied out.
    \/ task = "fanin" /\ fCpc = "end" /\ fOut = <<>> /\ UNCHANGED mcVars
    \/ task = "logrotator" /\ LR!Next
       /\ UNCHANGED <<vars, task, xs, ys, size, n, relType, pairs, kout, rel, query, result, sVars, cVars, tVars, fVars>>
    \* The writer is done or has panicked, Close has returned and the loop
    \* has ended (a Rotate caller still waiting blocks for good).
    \/ task = "logrotator" /\ lWpc # "run" /\ lCpc = "done" /\ lLpc = "end"
       /\ UNCHANGED mcVars

\* A step of conder's goroutine w.
CondStep(w) == task = "conder" /\ CD!Waiter(w) /\ UNCHANGED <<oldVars, lcVars, bkVars>>

\* A step of the broker's Start loop serving a queued request, and of
\* channel i's Start loop.
BrokerLoop == task = "broker" /\ (BK!BrokerSubscribe \/ BK!BrokerEmpty) /\ UNCHANGED <<oldVars, cdVars, lcVars>>
ChannelLoop(i) == task = "broker" /\ BK!Channel(i) /\ UNCHANGED <<oldVars, cdVars, lcVars>>

NewNext ==
    \/ \E w \in CWaiters : CondStep(w)
    \/ task = "conder" /\ (CD!NextCall \/ CD!DoneCall) /\ UNCHANGED <<oldVars, lcVars, bkVars>>
    \* The signalling goroutine is done; a waiter whose signal was lost
    \* blocks for good.
    \/ task = "conder" /\ Len(cdOps) = 2 /\ \A w \in CWaiters : ~ENABLED CD!Waiter(w)
       /\ UNCHANGED mcVars
    \/ task = "closer" /\ LC!Next /\ UNCHANGED <<oldVars, cdVars, bkVars>>
    \/ task = "closer" /\ \A g \in {"g1", "g2"} : lcPc[g] = "done" /\ UNCHANGED mcVars
    \/ task = "broker" /\ BK!Next /\ UNCHANGED <<oldVars, cdVars, lcVars>>
    \* Every client has closed and every queue is drained.
    \/ task = "broker" /\ \A c \in {"k1", "k2"} : bCpc[c] = "closed"
       /\ bBcast = "done" /\ ~ENABLED BK!Next /\ UNCHANGED mcVars

MCNext == (OldNext /\ UNCHANGED newVars) \/ NewNext

\* The Go scheduler runs every runnable goroutine: conder's waiters, the
\* broker's loop and each channel's loop are weakly fair.  Whether a client
\* subscribes or closes, or the signalling goroutine calls Next, Done or
\* Broadcast, is the program's choice and gets no fairness; the other
\* callers need none for their properties.
MCSpec == MCInit /\ [][MCNext]_mcVars
          /\ \A w \in CWaiters : WF_mcVars(CondStep(w))
          /\ WF_mcVars(BrokerLoop) /\ \A i \in BK!Ids : WF_mcVars(ChannelLoop(i))

-----------------------------------------------------------------------------
\* The keys caller's type invariant: its arguments are ids of the inputs, and
\* every key BuildEdgesForPairs accepts has the fixed width GetEdges splits
\* (prefix, two bytes, two ids).
KeysTypeOK ==
    /\ relType \in RelTypes
    /\ Len(pairs) <= MaxArgs
    /\ \A i \in DOMAIN pairs : pairs[i] \in KC!Ids \cup BadIds
    /\ kout.err \in {KC!NoErr, KC!ErrOddPairs, KC!ErrKeyLength}
    /\ \A i \in DOMAIN kout.keys : Len(kout.keys[i]) = Len(StorePrefix) + 2 + 2 * KeySize

\* MCEdgerKeys' ScanExact: a prefix scan over the keys of an accepted call
\* finds exactly an id's relations, never those of an id of another width.
ScanExact == KC!ScanExact

\* MCEdgerTraversal's TypeOK: every id in a Load* result is a stored id.
TraversalTypeOK == TC!TypeOK

\* MCEdgerTraversal's DirectExact: direct loads list exactly the item's
\* parents or children of the relation type, in id order.
DirectExact == TC!DirectExact

\* MCEdgerTraversal's ReachExact: unbounded loads that return give exactly
\* the ancestors or descendants.
ReachExact == TC!ReachExact

\* MCEdgerTraversal's UntilPath: Load*Until contains its target when it is
\* reachable.
UntilPath == TC!UntilPath

FirstOccurrences(s) ==
    LET idx == Seqs!SetToSortSeq({i \in DOMAIN s : \A k \in 1..(i - 1) : s[k] # s[i]}, <)
    IN  [j \in DOMAIN idx |-> s[idx[j]]]

SetOpsExact ==
    /\ SA!Intersect(xs, ys) = Seqs!SetToSortSeq(Seqs!ToSet(xs) \cap Seqs!ToSet(ys), <)
    /\ SA!Diff(xs, ys) = Seqs!SetToSortSeq(Seqs!ToSet(xs) \ Seqs!ToSet(ys), <)
    /\ SA!IsUnique(xs) <=> Seqs!IsInjective(xs)
    /\ SA!UniqueUnsorted(xs) = FirstOccurrences(xs)

\* Equal holds exactly when the two slices hold the same multiset of
\* strings, and EqualStrict exactly when they are the same sequence.
EqualIsBagEqual ==
    /\ SA!Equal(xs, ys) <=> Seqs!ToBag(xs) = Seqs!ToBag(ys)
    /\ SA!EqualStrict(xs, ys) <=> xs = ys

(***************************************************************************)
(* For every size Chunk handles (it panics for size < 0 and never returns  *)
(* for size 0 on a non-empty slice), the chunks joined give the slice      *)
(* back, every chunk but the last has exactly size values, and the last    *)
(* has 1..size, or is the one empty chunk of an empty slice.               *)
(***************************************************************************)
ChunkPartition ==
    ~SA!ChunkFails(xs, size) =>
        LET cs == SA!Chunk(xs, size) IN
        /\ SA!Join(cs) = xs
        /\ \A i \in 1..(Len(cs) - 1) : Len(cs[i]) = size
        /\ cs[Len(cs)] = <<>> => xs = <<>>
        /\ Len(cs[Len(cs)]) <= size \/ xs = <<>>

\* Decode inverts Encode for every n >= 0, and Encode's result has no
\* leading Alphabet[0] but for n = 0, so equal numbers have one encoding.
BijectiveRoundTrip ==
    /\ BJ!Decode(BJ!Encode(n)) = n
    /\ n > 0 => BJ!Encode(n)[1] # Letters[1]

(***************************************************************************)
(* MCMedger's Refinement with one goroutine: every call of medger is a     *)
(* call of EdgeStore, atomic, with the effect and error the interface      *)
(* documents (DeleteItem's two reads and its DeleteEdges included).        *)
(***************************************************************************)
SerialRefinement == MS!Refinement

\* MCMedger's TypeOK with two goroutines: only prefixed keys of valid ids
\* are stored, whatever the interleaving of write sections.
MedgerTypeOK == MM!TypeOK

\* The type invariant of the suite: the keys, traversal and medger callers'.
SuiteTypeOK == KeysTypeOK /\ TraversalTypeOK /\ MedgerTypeOK

\* MCMedger's ReadsArePaired with two goroutines: every read of DeleteItem
\* under RLock finds both keys of a relation or neither.
ReadsArePaired == MM!ReadsArePaired

(***************************************************************************)
(* No failure goes unreported: once Finish has returned, if a task that    *)
(* was started failed, either Do returned an error (and the caller broke   *)
(* off) or Finish returned one.  Done sends its error before releasing     *)
(* its slot and Finish drains errCh only after wg.Wait().                  *)
(***************************************************************************)
ErrorReported ==
    (tMpc = "end" /\ \E i \in DOMAIN TTasks : tWpc[i] # "none" /\ TTasks[i] # "nil")
        => (tResult # "nil" \/ tDoErr # "nil")

(***************************************************************************)
(* The rotator loses no message silently: until Close, every message the  *)
(* loop handled is in the rotation copy, the active file or r.buff, unless *)
(* its own handle.Write failed.  That must survive a failed io.Copy in     *)
(* open (r.buff keeps what was not written), a failed files.Copy and a     *)
(* failed Truncate in doRotate (the file keeps its lines), and reopens     *)
(* after a failed OpenFile or handle.Close.                                *)
(***************************************************************************)
NoSilentLoss ==
    ~lClosed => \A i \in 1..Len(lTaken) :
                   lTaken[i] \in lLost \cup Seqs!ToSet(lRotated \o lFile \o lBuff)

(***************************************************************************)
(* Until Close and the first failed write, copy or truncate, the log keeps *)
(* every message the loop handled once and in order: the rotation copy,    *)
(* then the file, then r.buff, across reopens with failed OpenFile or      *)
(* handle.Close, buffering while there is no handle, and a rotation.  A    *)
(* failed io.Copy reorders r.buff's rest after later lines, and a failed   *)
(* Truncate duplicates lines: the code logs these and goes on.             *)
(***************************************************************************)
LogExact == ~lClosed /\ ~lFailed => lRotated \o lFile \o lBuff = lTaken

(***************************************************************************)
(* Done releases everyone it finds waiting: a goroutine that was in        *)
(* c.c.Wait when Done() broadcast eventually returns from c.Wait(), even   *)
(* when a Next() came first and other goroutines compete for c.mx.        *)
(***************************************************************************)
DoneReleases ==
    task = "conder" => \A w \in CWaiters : (w \in cdReleased ~> cdPc[w] = "done")

(***************************************************************************)
(* Close is idempotent under concurrency: the wrapped listener is closed   *)
(* at most once, and every Close that has returned returned that close's  *)
(* result, also when it came while the first Close was still running.     *)
(***************************************************************************)
CloseOnce ==
    /\ lcCloses <= 1
    /\ \A g \in {"g1", "g2"} : lcPc[g] = "done" => lcRet[g] = lcE

(***************************************************************************)
(* A deserted channel goes away: once a client has left channel i and no  *)
(* member is left or queued, the broker eventually cancels i and i's Start *)
(* loop returns, so neither b.chans nor a goroutine leaks.  It takes the   *)
(* unsubscribe case's signalEmpty, the broker's empty case cancelling the  *)
(* channel its name maps to at that time, and the channel's ctx case.      *)
(***************************************************************************)
Deserted(i) ==
    /\ i \in bRunning
    /\ \E c \in {"k1", "k2"} : bCChan[c] = i /\ c \in bCClosed
    /\ bAud[i] = {} /\ bSubQ[i] = <<>>

DesertedStops == task = "broker" => \A i \in BK!Ids : (Deserted(i) ~> i \notin bRunning)

=============================================================================
