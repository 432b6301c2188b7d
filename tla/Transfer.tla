------------------------------ MODULE Transfer -----------------------------
(***************************************************************************)
(* contactctl import (src/internal/ctl/ctl.go), from a directory or from   *)
(* one file with many cards, for real or as a dry run, while the daemon    *)
(* writes the same book and somebody changes the files:                    *)
(*     directory  RunImport -> Stat ... -> ReadFile ... -> VerifyFile ...  *)
(*     one file   RunConcat                                                *)
(*     dry run    (Classify [-> ClassifyUid]) ...                          *)
(*     for real   BeginImport -> the statements of StoreTx                 *)
(* A file's content is the card in it; its stamp is what os.SameFile, size *)
(* and modification time tell of it.                                       *)
(***************************************************************************)
EXTENDS StoreTx, SequencesExt

\* MaxBatch bounds how many files there are.
ASSUME TransferAssumption == IsFiniteSet(Hrefs) /\ Cardinality(Hrefs) <= MaxBatch

VARIABLES
    cmd,    \* the import command that runs
    files,  \* [Hrefs -> the file of this name, or NoRow]
    edited  \* bound: the files changed since the command began; each changes once

transferVars == <<cmd, files, edited>>
vars == <<storeVars, tx, transferVars>>

File == [card : Card, stamp : 0 .. 1]
NoFiles == [h \in Hrefs |-> NoRow]

\* names: the files of the directory, i: the one, or the element of batch, that is next.
NoCmd == [pc |-> "idle", dry |-> FALSE, id |-> 0, names |-> <<>>, i |-> 1,
          stamps |-> [h \in Hrefs |-> 0], batch |-> <<>>, created |-> 0, updated |-> 0,
          status |-> "none", still |-> TRUE, steady |-> TRUE]

Finish(status, created, updated) ==
    cmd' = [NoCmd EXCEPT !.status = status, !.created = created, !.updated = updated]

\* The loop over n things goes on, or is over.
Loop(c, n, pc) == IF c.i < n THEN [c EXCEPT !.i = @ + 1] ELSE [c EXCEPT !.i = 1, !.pc = pc]

\* What Committed readers find.
BookFound == Committed!AddressbookOf(Username, Slug)
CardsNow == Seen(2)[cmd.id]

-----------------------------------------------------------------------------
(* Reading the files *)

\* os.ReadDir, after the book was found.
RunImport ==
    /\ cmd.pc = "idle"
    /\ \E dry \in BOOLEAN, dir \in [Hrefs -> {NoRow} \cup [card : Card, stamp : {0}]] :
        /\ files' = dir
        /\ IF BookFound = {} THEN Finish("not_found", 0, 0)
           ELSE \E id \in BookFound, order \in SetToSeqs({h \in Hrefs : dir[h] # NoRow}) :
                  cmd' = [NoCmd EXCEPT !.pc = IF order = <<>> THEN "apply" ELSE "stat",
                                       !.dry = dry, !.id = id, !.names = order]
    /\ edited' = {}
    /\ UNCHANGED <<storeVars, tx>>

\* importFromConcatFile: one file, opened once; a card goes to the href of its uid
\* (the file name of uid x is modelled by x).
RunConcat ==
    /\ cmd.pc = "idle"
    /\ \E dry \in BOOLEAN, n \in 0 .. MaxBatch :
        \E b \in [1 .. n -> {in \in PutInput : in.href = in.uid}] :
            IF BookFound = {} THEN Finish("not_found", 0, 0)
            ELSE \E id \in BookFound :
                   cmd' = [NoCmd EXCEPT !.pc = "apply", !.dry = dry, !.id = id, !.batch = b]
    /\ files' = NoFiles /\ edited' = {}
    /\ UNCHANGED <<storeVars, tx>>

NextName == cmd.names[cmd.i]

\* A file that is gone, or is not the one that was listed, fails the command (Quit).
Stat ==
    /\ cmd.pc = "stat" /\ files[NextName] # NoRow
    /\ cmd' = Loop([cmd EXCEPT !.stamps[NextName] = files[NextName].stamp], Len(cmd.names), "read")
    /\ UNCHANGED <<storeVars, tx, files, edited>>

\* openImportRegularFileAtSnapshot
AsListed(h) == files[h] # NoRow /\ files[h].stamp = cmd.stamps[h]
AsRead(in) == files[in.href] # NoRow /\ files[in.href].card = [uid |-> in.uid, etag |-> in.etag]

\* The card is decoded and joins the batch.  `still' is a history variable: every file
\* was, when the last one had been read, as it is in the batch.
ReadFile ==
    /\ cmd.pc = "read" /\ AsListed(NextName)
    /\ LET card == files[NextName].card
           b == Append(cmd.batch, [href |-> NextName, uid |-> card.uid, etag |-> card.etag])
       IN cmd' = Loop([cmd EXCEPT !.batch = b, !.still = \A i \in DOMAIN b : AsRead(b[i])],
                      Len(cmd.names), "verify")
    /\ UNCHANGED <<storeVars, tx, files, edited>>

NoDigest(in) == TRUE \* mutation
SameDigest(in) == AsRead(in)

\* verifyImportFileSnapshotUnchanged
VerifyFile ==
    /\ cmd.pc = "verify" /\ AsListed(NextName) /\ SameDigest(cmd.batch[cmd.i])
    /\ cmd' = Loop(cmd, Len(cmd.names), "apply")
    /\ UNCHANGED <<storeVars, tx, files, edited>>

\* The world writes, replaces, touches or removes a file, with or without a trace.
Edit(h) ==
    /\ cmd.pc \in {"stat", "read", "verify"} /\ h \notin edited
    /\ \E file \in IF files[h] = NoRow THEN {f \in File : f.stamp = 1}
                   ELSE (File \cup {NoRow}) \ {files[h]} :
          files' = [files EXCEPT ![h] = file]
    /\ edited' = edited \cup {h}
    /\ UNCHANGED <<storeVars, tx, cmd>>

-----------------------------------------------------------------------------
(* The dry run: putOrClassifyImportedCard *)

Counted(c, created) ==
    IF c.i < Len(c.batch)
    THEN cmd' = [c EXCEPT !.i = @ + 1, !.pc = "apply",
                          !.created = @ + created, !.updated = @ + 1 - created]
    ELSE Finish("ok", c.created + created, c.updated + 1 - created)

\* Mutation: an existing card may take any uid.
KeepsUidAlways(in, card) == TRUE
KeepsUid(in, card) == card.uid = in.uid

\* GetCard
Classify ==
    /\ cmd.pc = "apply" /\ cmd.dry /\ cmd.batch # <<>>
    /\ LET in == cmd.batch[cmd.i]
           card == CardsNow[in.href]
       IN IF card = NoRow THEN cmd' = [cmd EXCEPT !.pc = "list_new"]
          ELSE IF KeepsUid(in, card) THEN Counted(cmd, 0)
          ELSE cmd' = [cmd EXCEPT !.pc = "list_old"]
    /\ UNCHANGED <<storeVars, tx, files, edited>>

\* ListCards
ClassifyUid ==
    /\ cmd.pc \in {"list_new", "list_old"}
    /\ LET in == cmd.batch[cmd.i]
           others == IF cmd.pc = "list_old" THEN Hrefs \ {in.href} ELSE Hrefs
       IN IF \E h \in others : CardsNow[h] # NoRow /\ CardsNow[h].uid = in.uid
          THEN Finish("conflict", 0, 0)
          ELSE Counted(cmd, IF cmd.pc = "list_new" THEN 1 ELSE 0)
    /\ UNCHANGED <<storeVars, tx, files, edited>>

-----------------------------------------------------------------------------
(* The import: applyImportedBatch *)

\* PutCardsAtomic of nothing, or a dry run of nothing.
ApplyNothing ==
    /\ cmd.pc = "apply" /\ cmd.batch = <<>>
    /\ Finish("ok", 0, 0)
    /\ UNCHANGED <<storeVars, tx, files, edited>>

BeginImport ==
    /\ cmd.pc = "apply" /\ ~cmd.dry /\ cmd.batch # <<>>
    /\ Begin("ctl", "put", cmd.id, cmd.batch, Unconditional)
    /\ cmd' = [cmd EXCEPT !.pc = "writing"]
    /\ UNCHANGED <<files, edited>>

\* The command fails, or is killed, outside its transaction.
Quit ==
    /\ cmd.pc \notin {"idle", "writing"}
    /\ Finish("failed", 0, 0)
    /\ UNCHANGED <<storeVars, tx, files, edited>>

CtlStep ==
    \/ RunImport \/ RunConcat
    \/ Stat \/ ReadFile \/ VerifyFile
    \/ Classify \/ ClassifyUid
    \/ ApplyNothing \/ BeginImport \/ Quit

-----------------------------------------------------------------------------
(* Transactions, the daemon's and the command's *)

\* `steady' is a history variable: nobody committed while the dry run looked.
Disturbed == cmd' = [cmd EXCEPT !.steady = @ /\ cmd.pc \notin {"apply", "list_new", "list_old"}]

DaemonBegins ==
    /\ \E id \in Live :
        \/ \E in \in Written : Begin("daemon", "put", id, <<in>>, Unconditional)
        \/ \E in \in Written : cards[id][in.href] # NoRow
                               /\ Begin("daemon", "delete", id, <<in>>, Unconditional)
    /\ UNCHANGED cmd

TxStep ==
    \/ DaemonBegins
    \/ Statement /\ UNCHANGED cmd
    \/ Commit /\ tx.by = "daemon" /\ Disturbed
    \/ Commit /\ tx.by = "ctl" /\ Finish("ok", tx.created, Len(tx.batch) - tx.created)
    \/ Rollback /\ tx.by = "daemon" /\ UNCHANGED cmd
    \/ Rollback /\ tx.by = "ctl" /\ Finish("failed", 0, 0)
    \/ SingleStatement /\ Disturbed

TransferInit == TxInit /\ cmd = NoCmd /\ files = NoFiles /\ edited = {}

TransferNext ==
    \/ CtlStep
    \/ \E h \in Hrefs : Edit(h)
    \/ TxStep /\ UNCHANGED <<files, edited>>

TransferSpec == TransferInit /\ [][TransferNext]_vars

-----------------------------------------------------------------------------
(* Properties *)

TransferTypeOK ==
    /\ TxTypeOK
    /\ cmd.pc \in {"idle", "stat", "read", "verify", "apply", "list_new", "list_old", "writing"}
    /\ cmd.status \in {"none", "ok", "not_found", "conflict", "failed"}
    /\ cmd.id \in 0 .. MaxBooks /\ cmd.batch \in Seq(PutInput)
    /\ cmd.pc = "writing" <=> tx.by = "ctl"
    /\ files \in [Hrefs -> File \cup {NoRow}]

\* What Implements needs to know of a command: a batch is no longer than MaxBatch.
CmdOK ==
    /\ DOMAIN cmd = DOMAIN NoCmd
    /\ cmd.pc \in {"idle", "stat", "read", "verify", "apply", "list_new", "list_old", "writing"}
    /\ cmd.status \in {"none", "ok", "not_found", "conflict", "failed"}
    /\ cmd.pc = "writing" <=> tx.by = "ctl"
    /\ cmd.id \in 0 .. MaxBooks
    /\ cmd.pc # "idle" => cmd.id \in BookIds
    /\ cmd.names \in Seq(Hrefs) /\ Len(cmd.names) <= MaxBatch
    /\ cmd.batch \in Seq(PutInput) /\ Len(cmd.batch) <= MaxBatch
    /\ cmd.pc \in {"stat", "read", "verify"} => cmd.i \in 1 .. Len(cmd.names)
    /\ cmd.pc = "stat" => cmd.batch = <<>>
    /\ cmd.pc = "read" => Len(cmd.batch) = cmd.i - 1
    /\ files \in [Hrefs -> File \cup {NoRow}]
TransferInv == TxInv /\ CmdOK

\* The batch is the directory as it was at one moment, although its files are listed,
\* looked at, read and verified one after the other and others change them: the
\* second pass is there for this (ctl.go:823).
BatchIsASnapshot == cmd.pc \in {"apply", "list_new", "list_old", "writing"} => cmd.still

\* What the import of b into id has to come to.
Outcome(id, b) ==
    LET Before(n) == Committed!CardsAfter(id, b, n - 1) IN
    IF \E n \in DOMAIN b : ~UidFree(Before(n), b[n]) THEN [status |-> "conflict", created |-> 0]
    ELSE [status |-> "ok", created |-> Cardinality({n \in DOMAIN b : Before(n)[b[n].href] = NoRow})]

\* No element of b has to do with another: none writes the other's card, takes its uid,
\* or takes the uid that the other's card has had.
Separate(b) ==
    \A i, j \in DOMAIN b : i # j =>
        /\ b[i].href # b[j].href /\ b[i].uid # b[j].uid
        /\ CardsNow[b[j].href] # NoRow => CardsNow[b[j].href].uid # b[i].uid

Told(status, created) == cmd'.pc = "idle" /\ cmd'.status = status /\ cmd'.created = created

\* A dry run reports what the import would do to the collection as it is, the
\* conflicts included ("the same UID-conflict failure a real PutCard would hit"),
\* provided that no element of the batch has to do with another, since each
\* is looked up without those before it; and an import reports what it did.
ResultsAreTrue ==
    [][/\ cmd.dry /\ cmd'.status \in {"ok", "conflict"} /\ cmd.steady /\ cmd.id \in Committed!Live
          /\ cmd'.pc = "idle" /\ cmd.pc # "idle" /\ Separate(cmd.batch)
          => Told(Outcome(cmd.id, cmd.batch).status, Outcome(cmd.id, cmd.batch).created)
       /\ cmd.pc = "writing" /\ cmd'.status = "ok"
          => Told(Outcome(cmd.id, cmd.batch).status, Outcome(cmd.id, cmd.batch).created)]_vars
=============================================================================
