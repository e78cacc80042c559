----------------------------- MODULE EvidenceStore -----------------------------
(***************************************************************************)
(* What the honeypot keeps of a session: the download directory, in which  *)
(* redirected output (shell/pipe.py), standard input and redirections at   *)
(* the end of a session (insults/insults.py), downloads (core/artifact.py, *)
(* by the commands of the emulated shell or by llm/downloader.py)          *)
(* and SFTP uploads (shell/fs.py) are written to temporary files that are  *)
(* then renamed to the hash of what they hold.  All sessions share the     *)
(* directory; each maps its virtual files to files in it, and goes on      *)
(* writing to those.  A hash is modelled by the content itself.  The tty   *)
(* log, in a directory of its own, is left out.                            *)
(***************************************************************************)
EXTENDS Integers, Sequences, FiniteSets

CONSTANTS Sessions, Files, Chunks,
          MaxLen,      \* chunks in one file
          MaxClock,    \* seconds that pass
          MaxCalls,    \* commands and uploads started
          Inodes       \* files that can be open or on disk at once

ASSUME EvidenceAssumption == MaxLen \in Nat \ {0}

VARIABLES
    kind,     \* "exec", "llm" or "sftp"; an interactive shell is sent nothing to keep
    calls,    \* commands and uploads started
    open,     \* the sessions whose connection is not lost
    clock,    \* the second that file names are made of
    disk,     \* download_path: file name -> inode
    data,     \* inode -> chunks; an open file keeps its inode when renamed
    real,     \* A_REALFILE of each session's virtual files
    running,  \* the redirection of the command that runs, or <<>>
    redir,    \* LoggingServerProtocol.redirFiles
    art,      \* the Artifact of a download in progress: its temporary file, or <<>>
    handle,   \* an SFTP file: its name, inode and offset, or <<>>
    pp,       \* redirect_real_files of the protocol's pipe, while a command runs
    unrecorded, \* redirections whose end nothing recorded (history)
    taken     \* hashes that a redirection reuses, or whose file is still written to (history)

vars == <<kind, calls, open, clock, disk, data, real, running, redir, art, handle, taken,
          pp, unrecorded>>
session == <<kind, open, clock>>
Called == calls < MaxCalls /\ calls' = calls + 1

\* File names.  An SFTP name has the second and the path, but not the session.
Sha(content) == <<"sha", content>>
IsSha(name) == name # <<>> /\ name[1] = "sha"
RedirName(s, f) == <<"redir", s, clock, f>>
SftpName(f) == <<"sftp", clock, f>>
StdinName(s) == <<"stdin", s>>
ArtName(i) == <<"art", i>>

\* No such virtual file; one without a backing file.
Gone == <<"gone">>
Plain == <<"plain">>
Backed(name) == name \notin {Gone, Plain}

Held(h) == {h[s].inode : s \in {u \in Sessions : h[u] # <<>>}}
Used(d) == {d[n] : n \in DOMAIN d}
Live == Used(disk) \cup Held(handle)
FreshInode == CHOOSE i \in Inodes \ Live : TRUE
CanCreate == Inodes \ Live # {}

Without(d, name) == [n \in DOMAIN d \ {name} |-> d[n]]
With(d, name, i) == [n \in DOMAIN d \cup {name} |-> IF n = name THEN i ELSE d[n]]

\* The directory and the contents after a step; a file without a name that
\* nobody has open is gone.
Update(d, dt) ==
    /\ disk' = d
    /\ data' = [i \in Inodes |-> IF i \in Used(d) \cup Held(handle') THEN dt[i] ELSE <<>>]

\* open(name, "ab"): created when it is not there, appended to when it is.
Appends(name, chunks) ==
    IF name \in DOMAIN disk
    THEN Update(disk, [data EXCEPT ![disk[name]] = @ \o chunks])
    ELSE CanCreate /\ Update(With(disk, name, FreshInode), [data EXCEPT ![FreshInode] = chunks])

\* Mutant: of a duplicate, the stored file is removed instead of the temporary one.
Stored_WrongCopy(d, tmp) ==
    LET name == Sha(data[d[tmp]])
    IN  IF name \in DOMAIN d THEN Without(d, name) ELSE With(Without(d, tmp), name, d[tmp])

\* Hash the temporary file; drop it if its content is there, else rename it.
\* A file that already has the name of its hash is its own duplicate.
Stored(d, tmp) ==
    LET name == Sha(data[d[tmp]])
    IN  IF name \in DOMAIN d THEN Without(d, tmp) ELSE With(Without(d, tmp), name, d[tmp])

Shells == {s \in Sessions : kind[s] # "sftp"}
Idle(s) == s \in open /\ kind[s] = "exec" /\ running[s] = <<>> /\ art[s] = <<>>

-----------------------------------------------------------------------------
(* Redirections: pipe.py *)

_needs_new_backing(s, f) == ~Backed(real[s][f])

_create_redirect_target(s, f) ==
    /\ _needs_new_backing(s, f)
    /\ UNCHANGED handle
    /\ Appends(RedirName(s, f), <<>>)
    /\ real' = [real EXCEPT ![s][f] = RedirName(s, f)]
    /\ UNCHANGED taken

\* The backing file is truncated, or kept to be appended to, whatever it is.
_reuse_existing_backing(s, f, append) ==
    LET name == real[s][f]
    IN  /\ ~_needs_new_backing(s, f)
        /\ UNCHANGED handle
        /\ IF append THEN UNCHANGED <<disk, data>>
           ELSE IF name \in DOMAIN disk
           THEN Update(disk, [data EXCEPT ![disk[name]] = <<>>])
           ELSE Appends(name, <<>>)
        /\ taken' = IF IsSha(name) THEN taken \cup {name} ELSE taken
        /\ UNCHANGED real

\* The pipe of a line sets its redirections up before any command runs.  By "whom"
\* they are made: the last command of the line or one that ends before the next is
\* started; a "stage" that still runs when the pipe of a later one is current; or
\* "nothing", because there is no command, or one was not found, or another
\* redirection of the line failed.
Redirect(s, f, append, whom) ==
    /\ Called /\ Idle(s)
    /\ _create_redirect_target(s, f) \/ _reuse_existing_backing(s, f, append)
    /\ running' = [running EXCEPT ![s] = IF whom = "nothing" THEN <<>> ELSE real'[s][f]]
    /\ pp' = [pp EXCEPT ![s] = IF whom = "command" THEN real'[s][f] ELSE <<>>]
    /\ unrecorded' = IF whom = "command" THEN unrecorded ELSE unrecorded \cup {real'[s][f]}
    /\ UNCHANGED <<session, redir, art>>

\* Commands go on writing after the connection is lost.
_write_to_file(s, c) ==
    /\ running[s] # <<>>
    /\ running[s] \in DOMAIN disk => Len(data[disk[running[s]]]) < MaxLen
    /\ UNCHANGED <<session, calls, real, running, redir, art, handle, taken, pp, unrecorded>>
    /\ Appends(running[s], <<c>>)

\* Mutant: nothing is remembered.
exit_Forgets(s) ==
    /\ running[s] # <<>> /\ s \in open
    /\ unrecorded' = unrecorded \ {pp[s]}
    /\ running' = [running EXCEPT ![s] = <<>>]
    /\ pp' = [pp EXCEPT ![s] = <<>>]
    /\ UNCHANGED <<session, calls, disk, data, real, redir, art, handle, taken>>

\* The end of a command: the redirections of the pipe that is current then, which
\* need not be its own, are remembered for the session's end.
exit(s) ==
    /\ running[s] # <<>> /\ s \in open
    /\ redir' = [redir EXCEPT ![s] = @ \cup ({pp[s]} \ {<<>>})]
    /\ unrecorded' = unrecorded \ {pp[s]}
    /\ running' = [running EXCEPT ![s] = <<>>]
    /\ pp' = [pp EXCEPT ![s] = <<>>]
    /\ UNCHANGED <<session, calls, disk, data, real, art, handle, taken>>

\* An exception ends the command before its exit().
raises(s) ==
    /\ running[s] # <<>> /\ s \in open
    /\ unrecorded' = unrecorded \cup {running[s]}
    /\ running' = [running EXCEPT ![s] = <<>>]
    /\ pp' = [pp EXCEPT ![s] = <<>>]
    /\ UNCHANGED <<session, calls, disk, data, real, redir, art, handle, taken>>

\* cp copies A_REALFILE; rm forgets it.
cp(s, f, g) ==
    /\ Called /\ Idle(s) /\ f # g /\ real[s][f] # Gone
    /\ real' = [real EXCEPT ![s][g] = real[s][f]]
    /\ UNCHANGED <<session, disk, data, running, redir, art, handle, taken, pp, unrecorded>>
rm(s, f) ==
    /\ Called /\ Idle(s) /\ real[s][f] # Gone
    /\ real' = [real EXCEPT ![s][f] = Gone]
    /\ UNCHANGED <<session, disk, data, running, redir, art, handle, taken, pp, unrecorded>>

\* An exec session of the emulated shell keeps what it is sent; one of the LLM
\* has another class and counts as interactive.
dataReceived(s, c) ==
    /\ kind[s] = "exec" /\ s \in open
    /\ StdinName(s) \in DOMAIN disk => Len(data[disk[StdinName(s)]]) < MaxLen
    /\ UNCHANGED <<session, calls, real, running, redir, art, handle, taken, pp, unrecorded>>
    /\ Appends(StdinName(s), <<c>>)

-----------------------------------------------------------------------------
(* Downloads: core/artifact.py *)

Artifact(s) ==
    /\ CanCreate
    /\ art' = [art EXCEPT ![s] = ArtName(FreshInode)]
    /\ UNCHANGED <<session, real, running, redir, handle, taken, pp, unrecorded>>
    /\ Update(With(disk, ArtName(FreshInode), FreshInode), [data EXCEPT ![FreshInode] = <<>>])

\* wget, curl, ftpget or tftp, once the request is allowed.
download(s) == Called /\ Idle(s) /\ Artifact(s)

write(s, c) ==
    /\ art[s] # <<>> /\ Len(data[disk[art[s]]]) < MaxLen
    /\ data' = [data EXCEPT ![disk[art[s]]] = Append(@, c)]
    /\ UNCHANGED <<session, calls, disk, real, running, redir, art, handle, taken, pp, unrecorded>>

\* Artifact.close: an empty file is removed, and then there is no hash.
Emptied(s) == data[disk[art[s]]] = <<>>
close(s) == Update(IF Emptied(s) THEN Without(disk, art[s]) ELSE Stored(disk, art[s]), data)

\* The file of the session gets the hash as its backing, also when the session
\* is lost; without one, update_realfile does nothing.
collectioncomplete(s, f) ==
    /\ kind[s] = "exec" /\ art[s] # <<>>
    /\ UNCHANGED <<session, calls, running, redir, handle, taken, pp, unrecorded>>
    /\ close(s)
    /\ real' = [real EXCEPT ![s][f] = IF Emptied(s) THEN Plain ELSE Sha(data[disk[art[s]]])]
    /\ art' = [art EXCEPT ![s] = <<>>]

\* tftp closes the file before Artifact.close, which then raises: nothing is
\* hashed, and the temporary file stays under its own name.
_download_success_tftp(s, f) ==
    /\ kind[s] = "exec" /\ art[s] # <<>>
    /\ real' = [real EXCEPT ![s][f] = Plain]
    /\ art' = [art EXCEPT ![s] = <<>>]
    /\ UNCHANGED <<session, calls, disk, data, running, redir, handle, taken, pp, unrecorded>>

\* ftpget closes the artifact of a failed download, wget and curl do not.
_download_error(s, closes) ==
    /\ kind[s] = "exec" /\ art[s] # <<>>
    /\ UNCHANGED <<session, calls, real, running, redir, handle, taken, pp, unrecorded>>
    /\ IF closes THEN close(s) ELSE UNCHANGED <<disk, data>>
    /\ art' = [art EXCEPT ![s] = <<>>]

-----------------------------------------------------------------------------
(* The LLM session: llm/downloader.py, and scp in llm/protocol.py.  Its files *)
(* have no backing: the world state knows them only by name.               *)

\* A URL whose host is allowed; scp, a blocked host or a malformed URL has no file.
fetch(s) == kind[s] = "llm" /\ s \in open /\ art[s] = <<>> /\ Called /\ Artifact(s)

Finished(s) ==
    /\ kind[s] = "llm" /\ art[s] # <<>>
    /\ art' = [art EXCEPT ![s] = <<>>]
    /\ UNCHANGED <<session, calls, real, running, redir, handle, taken, pp, unrecorded>>

\* By FTP or TFTP what arrived before a failure is kept, as it is on success;
\* by HTTP the artifact of a failure is not closed, and its file stays.
_finalize_udp_or_ftp(s) == Finished(s) /\ close(s)
_finish_http_success(s) == Finished(s) /\ close(s)
_finish_http_exception(s) == Finished(s) /\ UNCHANGED <<disk, data>>

\* Mutant: the upload is appended to a file that has its hash already.
_persist_scp_file_Appends(s, c) ==
    /\ kind[s] = "llm" /\ s \in open /\ Called
    /\ UNCHANGED <<session, real, running, redir, art, handle, taken, pp, unrecorded>>
    /\ Appends(Sha(<<c>>), <<c>>)

\* At the end of input each file of an upload goes through an artifact.  An
\* upload that is cut off before is not kept.
_persist_scp_file(s, c) ==
    /\ kind[s] = "llm" /\ s \in open /\ Called
    /\ UNCHANGED <<session, real, running, redir, art, handle, taken, pp, unrecorded>>
    /\ IF Sha(<<c>>) \in DOMAIN disk THEN UNCHANGED <<disk, data>> ELSE Appends(Sha(<<c>>), <<c>>)

-----------------------------------------------------------------------------
(* SFTP: shell/fs.py *)

\* Files that have got the name of a hash while another client has them open.
WrittenTo == {n \in DOMAIN disk' : IsSha(n) /\ disk'[n] \in Held(handle')}

\* O_CREAT | O_TRUNC, by a name another session may be writing to.
sftp_open(s, f) ==
    LET name == SftpName(f)
        i == IF name \in DOMAIN disk THEN disk[name] ELSE FreshInode
    IN  /\ kind[s] = "sftp" /\ s \in open /\ Called /\ handle[s] = <<>>
        /\ name \notin DOMAIN disk => CanCreate
        /\ handle' = [handle EXCEPT ![s] = [name |-> name, inode |-> i, pos |-> 0]]
        /\ Update(With(disk, name, i), [data EXCEPT ![i] = <<>>])
        /\ real' = [real EXCEPT ![s][f] = name]
        /\ UNCHANGED <<session, running, redir, art, taken, pp, unrecorded>>

\* lseek and write at this client's offset; a shorter file gets a hole.
sftp_write(s, c) ==
    LET h == handle[s]
        old == data[h.inode]
        len == IF Len(old) > h.pos THEN Len(old) ELSE h.pos + 1
    IN  /\ h # <<>> /\ h.pos < MaxLen
        /\ data' = [data EXCEPT ![h.inode] =
                      [k \in 1 .. len |->
                         IF k = h.pos + 1 THEN c ELSE IF k <= Len(old) THEN old[k] ELSE "hole"]]
        /\ handle' = [handle EXCEPT ![s].pos = @ + 1]
        /\ UNCHANGED <<session, calls, disk, real, running, redir, art, taken, pp, unrecorded>>

\* Reopens the file by name, and raises if the name is gone.  The backing file
\* of the virtual file is already set, so it keeps the name that is gone now.
sftp_close(s) ==
    LET h == handle[s]
    IN  /\ h # <<>>
        /\ handle' = [handle EXCEPT ![s] = <<>>]
        /\ Update(IF h.name \in DOMAIN disk THEN Stored(disk, h.name) ELSE disk, data)
        /\ taken' = taken \cup WrittenTo
        /\ UNCHANGED <<session, calls, real, running, redir, art, pp, unrecorded>>

-----------------------------------------------------------------------------
(* The end of a session: insults.py *)

\* One of redirFiles: skipped when it is gone, removed when it is empty.
CollectRedir(d, name) ==
    IF name \notin DOMAIN d THEN d
    ELSE IF data[d[name]] = <<>> THEN Without(d, name) ELSE Stored(d, name)

\* redirFiles is a set; its files are collected in any order.
Orders(names) ==
    {o \in [1 .. Cardinality(names) -> names] : \A n \in names : \E i \in DOMAIN o : o[i] = n}

Collected(d, order) ==
    LET after[n \in 0 .. Len(order)] ==
            IF n = 0 THEN d ELSE CollectRedir(after[n - 1], order[n])
    IN  after[Len(order)]

\* "this method is called 4 times on logout".
connectionLost(s) ==
    /\ kind[s] # "sftp"
    /\ UNCHANGED <<kind, calls, clock, real, running, art, handle, pp, unrecorded>>
    /\ LET d1 == IF s \in open /\ StdinName(s) \in DOMAIN disk THEN Stored(disk, StdinName(s)) ELSE disk
       IN  \E order \in Orders(redir[s]) : Update(Collected(d1, order), data)
    /\ taken' = taken \cup WrittenTo
    /\ redir' = [redir EXCEPT ![s] = {}]
    /\ open' = open \ {s}

\* The SFTP subsystem closes its files first.
sftp_lost(s) ==
    /\ kind[s] = "sftp" /\ handle[s] = <<>> /\ s \in open
    /\ open' = open \ {s}
    /\ UNCHANGED <<kind, calls, clock, disk, data, real, running, redir, art, handle, taken, pp, unrecorded>>

Tick == /\ clock < MaxClock
        /\ clock' = clock + 1
        /\ UNCHANGED <<kind, calls, open, disk, data, real, running, redir, art, handle, taken, pp, unrecorded>>

-----------------------------------------------------------------------------
EvidenceInit ==
    /\ kind \in [Sessions -> {"exec", "llm", "sftp"}]
    /\ calls = 0
    /\ open = Sessions
    /\ clock = 0
    /\ disk = <<>>
    /\ data = [i \in Inodes |-> <<>>]
    /\ real = [s \in Sessions |-> [f \in Files |-> Gone]]
    /\ running = [s \in Sessions |-> <<>>]
    /\ redir = [s \in Sessions |-> {}]
    /\ art = [s \in Sessions |-> <<>>]
    /\ handle = [s \in Sessions |-> <<>>]
    /\ taken = {}
    /\ pp = [s \in Sessions |-> <<>>]
    /\ unrecorded = {}

EvidenceNext ==
    \/ \E s \in Sessions, f \in Files, b \in BOOLEAN,
          whom \in {"command", "stage", "nothing"} : Redirect(s, f, b, whom)
    \/ \E s \in Sessions, c \in Chunks : \/ _write_to_file(s, c) \/ dataReceived(s, c)
                                         \/ write(s, c) \/ sftp_write(s, c)
                                         \/ _persist_scp_file(s, c)
    \/ \E s \in Sessions : \/ exit(s) \/ raises(s) \/ download(s) \/ sftp_close(s) \/ fetch(s)
                           \/ _finalize_udp_or_ftp(s) \/ _finish_http_success(s)
                           \/ _finish_http_exception(s)
                           \/ connectionLost(s) \/ sftp_lost(s)
    \/ \E s \in Sessions, f, g \in Files : cp(s, f, g)
    \/ \E s \in Sessions, f \in Files : \/ rm(s, f) \/ collectioncomplete(s, f)
                                        \/ _download_success_tftp(s, f) \/ sftp_open(s, f)
    \/ \E s \in Sessions, b \in BOOLEAN : _download_error(s, b)
    \/ Tick

EvidenceSpec == EvidenceInit /\ [][EvidenceNext]_vars

-----------------------------------------------------------------------------
\* Every name is of one of the five forms, and every file open or on disk has
\* an inode of its own.
EvidenceTypeOK ==
    /\ open \subseteq Sessions
    /\ \A n \in DOMAIN disk : /\ n[1] \in {"sha", "redir", "sftp", "stdin", "art"}
                              /\ disk[n] \in Inodes
                              /\ Len(data[disk[n]]) <= MaxLen
    /\ \A m, n \in DOMAIN disk : disk[m] = disk[n] => m = n
    /\ \A s \in Sessions : art[s] # <<>> => art[s] \in DOMAIN disk

\* A file that has a hash for its name holds what hashes to it, in whatever
\* order sessions write, download, upload and end, unless a redirection reused
\* it or it got its name while an upload still wrote to it.
HashNamesContent ==
    \A n \in DOMAIN disk : IsSha(n) /\ n \notin taken => data[disk[n]] = n[2]

\* What is stored under its hash is not removed again, by the end of this or of
\* another session, unless a redirection reused it.
EvidenceKept ==
    [][\A n \in DOMAIN disk : IsSha(n) /\ n \notin taken => n \in DOMAIN disk']_vars

\* The virtual files of a shell keep their backing file while the session lasts.
BackingThere ==
    \A s \in Shells \cap open, f \in Files :
       Backed(real[s][f]) => real[s][f] \in DOMAIN disk \/ real[s][f] \in taken

\* When every session is over, no redirection, input or upload is left under a
\* temporary name, but for the output of a command the loss cut off, and the
\* redirections no exit() recorded: made by no command, or by one that raised or
\* whose pipe was no longer current when it ended.
TempsCollected ==
    open = {} => \A n \in DOMAIN disk :
                   n[1] \in {"redir", "stdin", "sftp"} =>
                       n \in unrecorded \/ \E s \in Sessions : running[s] = n

\* What the file system of the host holds is what the sessions rely on and no
\* more: the parts above.
EvidenceInv == EvidenceTypeOK /\ BackingThere /\ TempsCollected
=============================================================================
