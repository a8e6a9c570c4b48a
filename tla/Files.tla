-------------------------------- MODULE Files --------------------------------
(***************************************************************************)
(* Attachments (internal/store/files.go, handlers_files.go and the sweep   *)
(* of server.go) composed with the mail store: upload under quotas,        *)
(* renewal, deletion, the daily sweep of expired files, and mail that      *)
(* grants its recipients the files it names.                               *)
(*                                                                         *)
(* Each action is one bbolt transaction; the sweep is two.                 *)
(***************************************************************************)
EXTENDS MailStore, FiniteSetsExt

CONSTANTS
    FileId,         \* file ids (ULIDs)
    Size,           \* sizes of uploaded files
    Grants,         \* "allowed" lists given at upload, lowercased
    FileQuota,      \* per-account limit (GetFileQuotaPerAcct)
    TotalLimit,     \* limit over all accounts (GetFilesTotalLimit)
    FileTTL,        \* lifetime of a file since upload or renewal
    Download,       \* concurrent downloads
    NoFile          \* no file record

ASSUME FilesAssumption ==
    /\ Size \subseteq Nat /\ FileQuota \in Nat /\ TotalLimit \in Nat
    /\ FileTTL \in Nat /\ Grants \subseteq SUBSET Key
    /\ IsFiniteSet(FileId)
    /\ NoFile \notin [owner : Address, size : Nat, createdAt : Nat, allowed : SUBSET Key]

VARIABLES
    files,      \* the files bucket: id -> metadata
    data,       \* ids that have content in the files_data bucket
    minted,     \* file ids given out
    attached,   \* message id -> snapshots of the files it names
    doomed,     \* what the sweep has collected and not yet deleted
    download    \* download -> the file it is authorized for

fileVars == <<files, data, minted, attached, doomed, download>>

FileRecord == [owner : Address, size : Nat, createdAt : Nat, allowed : SUBSET Key]

Live == {f \in FileId : files[f] # NoFile}

TotalSize(S) == MapThenSumSet(LAMBDA f : files[f].size, S)

\* CreatedAt < now - FileTTL
Expired(f) == f \in Live /\ files[f].createdAt + FileTTL < now

Own(f, who) == f \in Live /\ Lower[files[f].owner] = Lower[who]

-----------------------------------------------------------------------------
\* Metadata and content land in one transaction, under both limits.  The
\* owner is the address as the caller spells it.
SaveFile(who, f, size, allowed) ==
    /\ TotalSize({g \in Live : files[g].owner = who}) + size <= FileQuota
    /\ TotalSize(Live) + size <= TotalLimit
    /\ files' = [files EXCEPT ![f] = [owner |-> who, size |-> size,
                                      createdAt |-> now, allowed |-> allowed]]
    /\ data' = data \cup {f}
    /\ minted' = minted \cup {f}
    /\ UNCHANGED <<vars, attached, doomed, download>>

DeleteFile(who, f) ==
    /\ Own(f, who)
    /\ files' = [files EXCEPT ![f] = NoFile]
    /\ data' = data \ {f}
    /\ UNCHANGED <<vars, minted, attached, doomed, download>>

ExtendFile(who, f) ==
    /\ Own(f, who)
    /\ files' = [files EXCEPT ![f].createdAt = now]
    /\ UNCHANGED <<vars, data, minted, attached, doomed, download>>

-----------------------------------------------------------------------------
(* CleanupExpiredFiles: the ids are collected in a View and deleted in an  *)
(* Update, with no second look at their age.                               *)

\* Mutant of SweepCollect: the sweep waits until every file has expired.
SweepWhenAllExpired ==
    /\ doomed = {} /\ Live # {}
    /\ \A f \in Live : Expired(f)
    /\ doomed' = Live
    /\ UNCHANGED <<vars, files, data, minted, attached, download>>

SweepCollect ==
    /\ doomed = {}
    /\ doomed' = {f \in Live : Expired(f)}
    /\ doomed' # {}
    /\ UNCHANGED <<vars, files, data, minted, attached, download>>

\* Mutant of SweepDelete: the content of a file outlives its record.
SweepRecords ==
    /\ doomed # {}
    /\ files' = [f \in FileId |-> IF f \in doomed THEN NoFile ELSE files[f]]
    /\ doomed' = {}
    /\ UNCHANGED <<vars, data, minted, attached, download>>

\* The content goes with the record; a record deleted meanwhile is skipped.
SweepDelete ==
    /\ doomed # {}
    /\ files' = [f \in FileId |-> IF f \in doomed THEN NoFile ELSE files[f]]
    /\ data' = data \ {f \in doomed : files[f] # NoFile}
    /\ doomed' = {}
    /\ UNCHANGED <<vars, minted, attached, download>>

-----------------------------------------------------------------------------
(* SendWithAttachments: one transaction.                                   *)

Snapshot(f) == [file |-> f, createdAt |-> files[f].createdAt]

\* The valid recipients join the allowed list of every file, its owner apart.
Granted(f, msg) ==
    [files[f] EXCEPT !.allowed =
        @ \cup ((Recipients(msg) \cap accounts) \ {Lower[files[f].owner]})]

\* Mutants of SendWithAttachments: anybody's file can be attached; only the
\* To recipients are granted the files.
SendAnyFile(id, msg, S) ==
    /\ S \subseteq Live
    /\ Recipients(msg) \cap accounts # {}
    /\ files' = [f \in FileId |-> IF f \in S THEN Granted(f, msg) ELSE files[f]]
    /\ Deliver(id, msg)
    /\ attached' = [attached EXCEPT ![id] = {Snapshot(f) : f \in S}]
    /\ UNCHANGED <<now, pc, req, data, minted, doomed, download>>

SendGrantingTo(id, msg, S) ==
    /\ \A f \in S : Own(f, msg.from)
    /\ Recipients(msg) \cap accounts # {}
    /\ files' = [f \in FileId |->
                   IF f \in S THEN Granted(f, [msg EXCEPT !.cc = {}]) ELSE files[f]]
    /\ Deliver(id, msg)
    /\ attached' = [attached EXCEPT ![id] = {Snapshot(f) : f \in S}]
    /\ UNCHANGED <<now, pc, req, data, minted, doomed, download>>

\* Unlike Send, no valid recipient means that nothing is written; a missing
\* parent or file, or somebody else's file, likewise.
SendWithAttachments(id, msg, S) ==
    /\ msg.inReplyTo \in Stored \cup {NoMsg}
    /\ \A f \in S : Own(f, msg.from)
    /\ Recipients(msg) \cap accounts # {}
    /\ files' = [f \in FileId |-> IF f \in S THEN Granted(f, msg) ELSE files[f]]
    /\ Deliver(id, msg)
    /\ attached' = [attached EXCEPT ![id] = {Snapshot(f) : f \in S}]
    /\ UNCHANGED <<now, pc, req, data, minted, doomed, download>>

-----------------------------------------------------------------------------
(* Download: the metadata is read and checked, then the content.  (A       *)
(* caller who lacks the access code is refused like one not permitted.)    *)

Authorized(who, f) ==
    /\ f \in Live
    /\ \/ Lower[files[f].owner] = Lower[who]
       \/ Lower[who] \in files[f].allowed

AuthorizeFileDownload(d, who, f) ==
    /\ download[d] = NoFile
    /\ Authorized(who, f)
    /\ download' = [download EXCEPT ![d] = [file |-> f, who |-> who, served |-> FALSE]]
    /\ UNCHANGED <<vars, files, data, minted, attached, doomed>>

\* Content gone meanwhile is a 404.
GetFileContent(d) ==
    /\ download[d] # NoFile /\ ~download[d].served
    /\ download' = [download EXCEPT ![d] =
                      IF @.file \in data THEN [@ EXCEPT !.served = TRUE] ELSE NoFile]
    /\ UNCHANGED <<vars, files, data, minted, attached, doomed>>

Served(d) ==
    /\ download[d] # NoFile /\ download[d].served
    /\ download' = [download EXCEPT ![d] = NoFile]
    /\ UNCHANGED <<vars, files, data, minted, attached, doomed>>

-----------------------------------------------------------------------------
FilesInit ==
    /\ Init
    /\ files = [f \in FileId |-> NoFile]
    /\ data = {} /\ minted = {} /\ doomed = {}
    /\ attached = [m \in MsgId |-> {}]
    /\ download = [d \in Download |-> NoFile]

\* The requests of an authenticated account.
Manage ==
    \E who \in Caller, f \in FileId :
        \/ /\ f \notin minted
           /\ \E size \in Size, allowed \in Grants : SaveFile(who, f, size, allowed)
        \/ DeleteFile(who, f)
        \/ ExtendFile(who, f)
        \/ \E d \in Download : AuthorizeFileDownload(d, who, f)

Attach ==
    \E who \in Caller, env \in Envelope, id \in FreshId, S \in (SUBSET Live) \ {{}} :
        SendWithAttachments(id, [from |-> who, to |-> env.to, cc |-> env.cc,
                                 inReplyTo |-> NoMsg], S)

\* A crash forgets the sweep and the downloads under way.
CrashFiles ==
    /\ doomed # {} \/ \E d \in Download : download[d] # NoFile
    /\ doomed' = {}
    /\ download' = [d \in Download |-> NoFile]
    /\ UNCHANGED <<vars, files, data, minted, attached>>

FilesNext ==
    \/ (\E name \in Address : CreateAccount(name)) /\ UNCHANGED fileVars
    \/ Tick /\ UNCHANGED fileVars
    \/ Manage \/ Attach \/ SweepCollect \/ SweepDelete \/ CrashFiles
    \/ \E d \in Download : GetFileContent(d) \/ Served(d)

FilesSpec == FilesInit /\ [][FilesNext]_<<vars, fileVars>>

\* filesTTLLoop sweeps at startup and every day; a crash is followed by a
\* startup, and the server is not down for good.
FilesFairSpec ==
    /\ FilesSpec
    /\ WF_<<vars, fileVars>>(SweepCollect)
    /\ SF_<<vars, fileVars>>(SweepDelete)

-----------------------------------------------------------------------------
(* Properties.                                                             *)

\* Every variable stays within its type, and no file is younger than now:
\* renewals do not accumulate.
FilesTypeOK ==
    /\ \A f \in Live : files[f].createdAt <= now
    /\ files \in [FileId -> FileRecord \cup {NoFile}]
    /\ data \in SUBSET FileId /\ minted \in SUBSET FileId /\ doomed \in SUBSET FileId
    /\ attached \in [MsgId -> SUBSET [file : FileId, createdAt : Nat]]
    /\ download \in [Download -> [file : FileId, who : Address, served : BOOLEAN] \cup {NoFile}]

\* A file's metadata and its content come and go together, whichever of the
\* owner and the sweep deletes it, and whoever was first: no content is left
\* that no record counts against a quota.
HalvesTogether == data = Live

\* Whoever received a message may download the files it names, as long as they
\* live: sending grants, and neither renewal nor later mail takes a grant back.
RecipientsMayDownload ==
    \A m \in Stored : \A s \in attached[m] : s.file \in Live =>
        \A a \in Key : m \in inbox[a] => Authorized(a, s.file)

\* A message only names files its sender owned, and the expiry it shows (the
\* snapshot's) is never later than the file's own.
SnapshotsHonest ==
    \A m \in Stored : \A s \in attached[m] :
        /\ s.file \in minted
        /\ s.file \in Live =>
              /\ Lower[files[s.file].owner] = Lower[messages[m].from]
              /\ s.createdAt <= files[s.file].createdAt

\* The files of one account, however it spells its address, stay within its
\* quota: "the owner's live files' total size plus this file must stay under
\* FileQuotaPerAcct" (AccountFileStats reports usage per account).
QuotaHolds ==
    \A a \in Key : TotalSize({f \in Live : Lower[files[f].owner] = a}) <= FileQuota

\* CleanupExpiredFiles "removes files older than the TTL": a file that the
\* sweep deletes is expired when it is deleted.
SweepOnlyExpired ==
    [][doomed # {} /\ doomed' = {} => \A f \in Live : files'[f] = NoFile => Expired(f)]_<<vars, fileVars>>

\* An expired file is removed unless its owner renews it.
ExpiredFilesGo ==
    \A f \in FileId : Expired(f) ~> ~Expired(f)

=============================================================================
