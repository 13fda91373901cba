--------------------------- MODULE RejectedCache ----------------------------
(***************************************************************************)
(* The rejected DNS response cache (RDRC) in the cache file,               *)
(* experimental/cachefile/rdrc.go.  A key stands for a transport and the   *)
(* question asked of it.  What was rejected waits in memory until a        *)
(* goroutine writes it, with an expiry, in batches.                        *)
(*                                                                         *)
(* An operator just before a definition with the same parameters is a      *)
(* faulty form of it, used to see that a property depends on it.           *)
(***************************************************************************)
EXTENDS Naturals, Sequences, FiniteSets, SequencesExt

CONSTANTS
    Key,
    QueueSize,   \* rdrcSaveQueueSize
    BatchSize    \* rdrcSaveBatchSize

VARIABLES
    saveRDRC,       \* the keys in the map c.saveRDRC
    saveRDRCQueue,
    requests,       \* the batch that flushRDRCSave works on
    written,        \* the transaction of that batch is over
    file,           \* the entry of each key in the database
    noted           \* what was queued and neither failed to be written nor expired

rdrcVars == <<saveRDRC, saveRDRCQueue, requests, written, file, noted>>

RDRCTypeOK ==
    /\ saveRDRC \in SUBSET Key
    /\ saveRDRCQueue \in BoundedSeq(Key, QueueSize)
    /\ requests \in BoundedSeq(Key, BatchSize)
    /\ written \in BOOLEAN
    /\ file \in [Key -> {"none", "valid", "expired"}]
    /\ noted \in SUBSET Key

RDRCInit ==
    /\ saveRDRC = {}
    /\ saveRDRCQueue = <<>>
    /\ requests = <<>>
    /\ written = FALSE
    /\ file = [k \in Key |-> "none"]
    /\ noted = {}

AlwaysRoom(k) == TRUE
Room(k) ==
    k \notin saveRDRC /\ Cardinality(saveRDRC) < QueueSize /\ Len(saveRDRCQueue) < QueueSize

SaveRDRCAsync(k) ==
    IF Room(k)
    THEN /\ saveRDRC' = saveRDRC \cup {k}
         /\ saveRDRCQueue' = Append(saveRDRCQueue, k)
         /\ noted' = noted \cup {k}
         /\ UNCHANGED <<requests, written, file>>
    ELSE UNCHANGED rdrcVars

(* loopRDRCSave takes what is queued, up to a batch. *)
TakeRequests ==
    LET n == IF Len(saveRDRCQueue) < BatchSize THEN Len(saveRDRCQueue) ELSE BatchSize
    IN  /\ requests = <<>>
        /\ saveRDRCQueue # <<>>
        /\ requests' = SubSeq(saveRDRCQueue, 1, n)
        /\ saveRDRCQueue' = SubSeq(saveRDRCQueue, n + 1, Len(saveRDRCQueue))
        /\ UNCHANGED <<saveRDRC, written, file, noted>>

(* The transaction of flushRDRCSave fails as a whole, or writes the batch  *)
(* and now and then removes what has expired.                              *)
WriteRequests ==
    /\ requests # <<>>
    /\ ~written
    /\ written' = TRUE
    /\ \/ /\ noted' = {k \in noted : k \in ToSet(requests) => file[k] = "valid"}
          /\ UNCHANGED file
       \/ /\ \E cleanup \in BOOLEAN :
                file' = [k \in Key |-> IF k \in ToSet(requests) THEN "valid"
                                       ELSE IF cleanup /\ file[k] = "expired" THEN "none"
                                       ELSE file[k]]
          /\ UNCHANGED noted
    /\ UNCHANGED <<saveRDRC, saveRDRCQueue, requests>>

NoneDone == {}
DoneKeys == ToSet(requests)

ForgetRequests ==
    /\ written
    /\ saveRDRC' = saveRDRC \ DoneKeys
    /\ requests' = <<>>
    /\ written' = FALSE
    /\ UNCHANGED <<saveRDRCQueue, file, noted>>

FlushLoop == TakeRequests \/ WriteRequests \/ ForgetRequests

(* The timeout of an entry passes. *)
EntryExpires(k) ==
    /\ file[k] = "valid"
    /\ file' = [file EXCEPT ![k] = "expired"]
    /\ noted' = IF k \in saveRDRC /\ ~(written /\ k \in DoneKeys) THEN noted ELSE noted \ {k}
    /\ UNCHANGED <<saveRDRC, saveRDRCQueue, requests, written>>

AnyEntry(k) == TRUE
StillExpired(k) == file[k] = "expired"

(* deleteExpiredRDRC looks again before it deletes; its transaction may    *)
(* fail.                                                                   *)
DeleteExpired(k) ==
    /\ file' \in {file, IF StillExpired(k) THEN [file EXCEPT ![k] = "none"] ELSE file}
    /\ UNCHANGED <<saveRDRC, saveRDRCQueue, requests, written, noted>>

(* A rejection that was queued is found again until it expires or its      *)
(* transaction fails: it does not fall between the map and the database,   *)
(* and whoever deletes an expired entry does not take a newer one with it. *)
RejectionKept == \A k \in noted : k \in saveRDRC \/ file[k] = "valid"
=============================================================================
