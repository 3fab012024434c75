--------------------------- MODULE VersionHistory ---------------------------
(***************************************************************************)
(* What the ingestion worker promises the readers of document_versions,    *)
(* with no transaction, lock, blob or process in sight: every document has *)
(* an append-only sequence of texts in which no text repeats the one       *)
(* before it, and the sequence of a document the worker has parked is      *)
(* final.                                                                  *)
(***************************************************************************)
EXTENDS Integers

CONSTANTS
    Docs,       \* the documents
    Contents    \* their possible texts

VARIABLES
    history,    \* history[d][n]: the text of version n of document d
    parked      \* the documents the worker has given up on

hvars == <<history, parked>>

HInit ==
    /\ \A d \in Docs : DOMAIN history[d] = {}
    /\ parked = {}

\* h is g with one more text at its end, different from the last text of g.
Appends(g, h) ==
    \E n \in DOMAIN h :
       /\ n \notin DOMAIN g
       /\ DOMAIN h = DOMAIN g \cup {n}
       /\ h[n] \in Contents
       /\ \A i \in DOMAIN g : i < n /\ h[i] = g[i]
       /\ n = 1 \/ (n - 1 \in DOMAIN g /\ g[n - 1] # h[n])

\* One committed batch: some documents gain a version, some are parked.
HNext ==
    /\ parked \subseteq parked'
    /\ \A d \in Docs :
          \/ history'[d] = history[d]
          \/ Appends(history[d], history'[d]) /\ d \notin parked'

HSpec == HInit /\ [][HNext]_hvars
=============================================================================
