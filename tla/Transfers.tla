------------------------------ MODULE Transfers ------------------------------
(***************************************************************************)
(* File transfers with the file server plugin: uploads that report their   *)
(* progress and can be cancelled, downloads that first exchange a password *)
(* or a session token for a single-use ticket.  The commands run side by   *)
(* side and share the map of cancel tokens.                                *)
(***************************************************************************)
EXTENDS Naturals, Sequences

CONSTANTS Uploads,      \* upload commands; each has the id its placeholder has
          Quiet,        \* those with an empty upload_id
          Downloads,    \* download commands
          Pieces,       \* chunks of a file
          MaxTickets    \* bound: tickets issued

VARIABLES
    upload,         \* each upload: where it stands and the bytes it gave away
    upload_cancels, \* AppState::upload_cancels: the ids with a cancel token
    cancelled,      \* tokens that were cancelled
    progress,       \* the progress channel of each upload: counts not yet emitted
    meter,          \* what the interface last heard of each upload
    download,       \* each download: where it stands and its ticket, 0 is none
    protected,      \* downloads of files that need a credential
    dest,           \* the file a download writes: absent, partial or whole
    tickets         \* server: tickets issued so far, numbered

transferVars == <<upload, upload_cancels, cancelled, progress, meter,
                  download, protected, dest, tickets>>
uploadVars == <<upload, upload_cancels, cancelled, progress, meter>>
downloadVars == <<download, protected, dest, tickets>>

Over == {"ok", "failed", "cancelled"}

TransfersInit ==
    /\ upload = [u \in Uploads |-> [at |-> "idle", sent |-> 0]]
    /\ upload_cancels = {} /\ cancelled = {}
    /\ progress = [u \in Uploads |-> << >>] /\ meter = [u \in Uploads |-> 0]
    /\ download = [d \in Downloads |-> [at |-> "idle", ticket |-> 0]] /\ tickets = 0
    /\ protected \in [Downloads -> BOOLEAN]
    /\ dest = [d \in Downloads |-> "absent"]

----------------------------------------------------------------------------
(* Uploads.                                                                *)

\* A mistake for upload_file: the token is stored once the first chunk is out.
upload_file_late(u) ==
    /\ upload[u].at = "idle"
    /\ upload' = [upload EXCEPT ![u].at = "sending"]
    /\ UNCHANGED <<upload_cancels, cancelled, progress, meter, downloadVars>>

\* The file is opened, the cancel token stored and the request started.
upload_file(u) ==
    /\ upload[u].at = "idle"
    /\ upload' = [upload EXCEPT ![u].at = "sending"]
    /\ upload_cancels' = upload_cancels \cup ({u} \ Quiet)
    /\ UNCHANGED <<cancelled, progress, meter, downloadVars>>

\* A password upload without a password, or a file that cannot be opened.
RefuseUpload(u) ==
    /\ upload[u].at = "idle"
    /\ upload' = [upload EXCEPT ![u].at = "failed"]
    /\ UNCHANGED <<upload_cancels, cancelled, progress, meter, downloadVars>>

\* The request body is polled for its next chunk, which counts as progress.
Chunk(u) ==
    /\ upload[u].at = "sending" /\ upload[u].sent < Pieces
    /\ upload' = [upload EXCEPT ![u].sent = @ + 1]
    /\ progress' = IF u \in Quiet THEN progress
                   ELSE [progress EXCEPT ![u] = Append(@, upload[u].sent + 1)]
    /\ UNCHANGED <<upload_cancels, cancelled, meter, downloadVars>>

\* The task that turns counts into events, which outlives the command.
emit_progress_events(u) ==
    /\ progress[u] # << >>
    /\ meter' = [meter EXCEPT ![u] = Head(progress[u])]
    /\ progress' = [progress EXCEPT ![u] = Tail(@)]
    /\ UNCHANGED <<upload, upload_cancels, cancelled, downloadVars>>

\* The select takes the response, even of an upload cancelled meanwhile.
Respond(u, good) ==
    /\ upload[u].at = "sending"
    /\ good => upload[u].sent = Pieces
    /\ upload' = [upload EXCEPT ![u].at = IF good THEN "ok" ELSE "failed"]
    /\ upload_cancels' = upload_cancels \ {u}
    /\ UNCHANGED <<cancelled, progress, meter, downloadVars>>

\* The request fails on the way: the token stays in the map.
RequestFails(u) ==
    /\ upload[u].at = "sending"
    /\ upload' = [upload EXCEPT ![u].at = "failed"]
    /\ UNCHANGED <<upload_cancels, cancelled, progress, meter, downloadVars>>

\* The select takes the cancellation.
Cancelled(u) ==
    /\ upload[u].at = "sending" /\ u \in cancelled
    /\ upload' = [upload EXCEPT ![u].at = "cancelled"]
    /\ UNCHANGED <<upload_cancels, cancelled, progress, meter, downloadVars>>

cancel_upload(u) ==
    /\ u \in upload_cancels
    /\ upload_cancels' = upload_cancels \ {u}
    /\ cancelled' = cancelled \cup {u}
    /\ UNCHANGED <<upload, progress, meter, downloadVars>>

UploadNext ==
    \E u \in Uploads :
        \/ upload_file(u) \/ RefuseUpload(u) \/ Chunk(u) \/ emit_progress_events(u)
        \/ Respond(u, TRUE) \/ Respond(u, FALSE) \/ RequestFails(u) \/ Cancelled(u) \/ cancel_upload(u)

----------------------------------------------------------------------------
(* Downloads.                                                              *)

\* A public file is asked for at once, for any other a ticket is obtained.
\* The user may try again, to the same file, once a download is over.
download_file(d) ==
    /\ download[d].at \in {"idle"} \cup Over
    /\ download' = [download EXCEPT ![d].at = IF protected[d] THEN "exchanging" ELSE "asking"]
    /\ UNCHANGED <<dest, tickets, protected, uploadVars>>

\* The server grants a ticket for the credential, or the exchange fails.
obtain_ticket(d) ==
    /\ download[d].at = "exchanging"
    /\ \/ /\ tickets < MaxTickets
          /\ tickets' = tickets + 1
          /\ download' = [download EXCEPT ![d] = [at |-> "asking", ticket |-> tickets + 1]]
       \/ /\ download' = [download EXCEPT ![d].at = "failed"]
          /\ UNCHANGED tickets
    /\ UNCHANGED <<dest, protected, uploadVars>>

\* The answer to the request: the file is created or truncated, or refused.
\* The ticket is used up either way.
GetAnswered(d, good) ==
    /\ download[d].at = "asking"
    /\ download' = [download EXCEPT ![d] = [at |-> IF good THEN "writing" ELSE "failed", ticket |-> 0]]
    /\ dest' = IF good THEN [dest EXCEPT ![d] = "partial"] ELSE dest
    /\ UNCHANGED <<tickets, protected, uploadVars>>

\* The stream ends, or breaks and leaves what was written.
FinishDownload(d, good) ==
    /\ download[d].at = "writing"
    /\ download' = [download EXCEPT ![d].at = IF good THEN "ok" ELSE "failed"]
    /\ dest' = IF good THEN [dest EXCEPT ![d] = "whole"] ELSE dest
    /\ UNCHANGED <<tickets, protected, uploadVars>>

DownloadNext ==
    \E d \in Downloads :
        \/ download_file(d) \/ obtain_ticket(d)
        \/ \E good \in BOOLEAN : GetAnswered(d, good) \/ FinishDownload(d, good)

TransfersNext == UploadNext \/ DownloadNext

TransfersSpec == TransfersInit /\ [][TransfersNext]_transferVars

----------------------------------------------------------------------------
\* While an upload waits for its answer the cancel button works: its token is
\* in the map, or it was cancelled already.  Other uploads that end, fail or
\* are cancelled in between take nothing from it.
CancelReaches ==
    \A u \in Uploads \ Quiet : upload[u].at = "sending" => u \in upload_cancels \cup cancelled
=============================================================================
