---------------------------- MODULE ChannelSettings ----------------------------
(***************************************************************************)
(* The notification channels and the mode of an account                    *)
(* (src/src/core/state.py with src/src/db/repository.py): administrators   *)
(* add, change and delete channels, and processes that start import what   *)
(* an old settings.json holds.                                             *)
(*                                                                         *)
(* In the table a URL stands for its encryption, which needs a key: where  *)
(* there may be none, the operation may fail.  Besides its URLs a client   *)
(* can send what it was shown in place of one: MaskedUrl.                  *)
(***************************************************************************)
EXTENDS Naturals

CONSTANTS Importers,  \* processes
          Editors,    \* requests that change channels
          Legacy,     \* the usable channels of settings.json, in its order
          LegacyMode, \* and its mode, or "none"
          Updates,    \* what a request may change: some columns, with their values
          Additions,  \* channels that may be added
          MaskedUrl,
          MaxChannels \* bound: channels added

Columns == {"name", "url", "enabled"}

ASSUME ChannelAssumption ==
    /\ MaxChannels \in Nat
    /\ \A row \in Additions : DOMAIN row = Columns
    /\ \A i \in DOMAIN Legacy : DOMAIN Legacy[i] = Columns

VARIABLES channels,    \* the table, by id
          nextChannel, \* ids so far, and one
          mode,        \* of the account, or "none"
          filePresent, \* whether settings.json is there
          imports,     \* by process: its stage, and which of Legacy it still adds
          edits,       \* by editor: channel, the row that it has read, updates
          accounted    \* channels of the file that were added, or found in the table

channelVars == <<channels, nextChannel, mode, filePresent, imports, edits, accounted>>

NoEdit == [id |-> 0, row |-> << >>, updates |-> << >>]

ChannelInit ==
    /\ channels = << >> /\ nextChannel = 1 /\ mode = "none" /\ filePresent = TRUE
    /\ imports = [p \in Importers |-> [stage |-> "start", todo |-> {}]]
    /\ edits = [e \in Editors |-> NoEdit] /\ accounted = {}

ChannelNames == {channels[id].name : id \in DOMAIN channels}

Inserted(row) ==
    /\ nextChannel <= MaxChannels
    /\ channels' = [id \in DOMAIN channels \cup {nextChannel} |->
                      IF id = nextChannel THEN row ELSE channels[id]]
    /\ nextChannel' = nextChannel + 1

-----------------------------------------------------------------------------
(* add_channel: a safe URL, encrypted. *)
AddChannel(row) ==
    /\ Inserted(row)
    /\ UNCHANGED <<mode, filePresent, imports, edits, accounted>>

DeleteChannel(id) ==
    /\ channels' = [other \in DOMAIN channels \ {id} |-> channels[other]]
    /\ UNCHANGED <<nextChannel, mode, filePresent, imports, edits, accounted>>

(* update_channel reads the row. *)
ReadChannel(e, id, updates) ==
    /\ edits[e] = NoEdit
    /\ edits' = [edits EXCEPT ![e] = [id |-> id, row |-> channels[id], updates |-> updates]]
    /\ UNCHANGED <<channels, nextChannel, mode, filePresent, imports, accounted>>

(* The columns that the session writes: those set to something else than    *)
(* what was read; a new URL always, a masked one never. *)
Written(edit) ==
    {c \in DOMAIN edit.updates :
        IF c = "url" THEN edit.updates.url # MaskedUrl ELSE edit.updates[c] # edit.row[c]}

(* Mutant of CommitChannel: every column is written. *)
CommitChannelRow(e) ==
    LET edit == edits[e]
    IN /\ edit # NoEdit /\ edit.id \in DOMAIN channels
       /\ channels' = [channels EXCEPT ![edit.id] =
                         [c \in DOMAIN edit.row |-> IF c \in Written(edit) THEN edit.updates[c]
                                                    ELSE edit.row[c]]]
       /\ edits' = [edits EXCEPT ![e] = NoEdit]
       /\ UNCHANGED <<nextChannel, mode, filePresent, imports, accounted>>

(* It commits. *)
CommitChannel(e) ==
    LET edit == edits[e]
    IN /\ edit # NoEdit /\ edit.id \in DOMAIN channels
       /\ channels' = [channels EXCEPT ![edit.id] =
                         [c \in DOMAIN @ |-> IF c \in Written(edit) THEN edit.updates[c] ELSE @[c]]]
       /\ edits' = [edits EXCEPT ![e] = NoEdit]
       /\ UNCHANGED <<nextChannel, mode, filePresent, imports, accounted>>

(* The row is gone, the key is missing, or the database fails. *)
EditFails(e) ==
    /\ edits[e] # NoEdit
    /\ edits' = [edits EXCEPT ![e] = NoEdit]
    /\ UNCHANGED <<channels, nextChannel, mode, filePresent, imports, accounted>>

SetMode(m) ==
    /\ mode' = m
    /\ UNCHANGED <<channels, nextChannel, filePresent, imports, edits, accounted>>

-----------------------------------------------------------------------------
(* _import_legacy_settings *)
Importing(p, stage, todo) == imports' = [imports EXCEPT ![p] = [stage |-> stage, todo |-> todo]]

(* The file is read, the key tried, and the mode of the account read. *)
BeginImport(p) ==
    /\ imports[p].stage = "start" /\ filePresent
    /\ Importing(p, IF mode = "none" /\ LegacyMode # "none" THEN "mode" ELSE "list", {})
    /\ UNCHANGED <<channels, nextChannel, mode, filePresent, edits, accounted>>

ImportMode(p) ==
    /\ imports[p].stage = "mode"
    /\ mode' = LegacyMode /\ Importing(p, "list", {})
    /\ UNCHANGED <<channels, nextChannel, filePresent, edits, accounted>>

LegacyNames == {Legacy[i].name : i \in DOMAIN Legacy}

(* Mutant of ListKnown: the file is removed before its channels are added. *)
ListKnownRemoving(p) ==
    /\ imports[p].stage = "list"
    /\ Importing(p, "adding", {i \in DOMAIN Legacy : Legacy[i].name \notin ChannelNames})
    /\ accounted' = accounted \cup (LegacyNames \cap ChannelNames)
    /\ filePresent' = FALSE
    /\ UNCHANGED <<channels, nextChannel, mode, edits>>

(* What is in the table by its name is not added again. *)
ListKnown(p) ==
    /\ imports[p].stage = "list"
    /\ Importing(p, "adding", {i \in DOMAIN Legacy : Legacy[i].name \notin ChannelNames})
    /\ accounted' = accounted \cup (LegacyNames \cap ChannelNames)
    /\ UNCHANGED <<channels, nextChannel, mode, filePresent, edits>>

(* The channels are added in their order, and each is committed by itself.  *)
ImportChannel(p) ==
    /\ imports[p].stage = "adding"
    /\ \E i \in imports[p].todo :
          /\ \A j \in imports[p].todo : i <= j
          /\ Inserted(Legacy[i])
          /\ accounted' = accounted \cup {Legacy[i].name}
          /\ Importing(p, "adding", imports[p].todo \ {i})
    /\ UNCHANGED <<mode, filePresent, edits>>

RemoveFile(p) ==
    /\ imports[p].stage = "adding" /\ imports[p].todo = {}
    /\ filePresent' = FALSE /\ Importing(p, "done", {})
    /\ UNCHANGED <<channels, nextChannel, mode, edits, accounted>>

(* There is no file, or no key, or the database fails: load_settings logs   *)
(* it, and the file is left where it is. *)
ImportEnds(p) ==
    /\ imports[p].stage # "done"
    /\ Importing(p, "done", {})
    /\ UNCHANGED <<channels, nextChannel, mode, filePresent, edits, accounted>>

(* The process dies, at any point, and starts again. *)
ImporterRestarts(p) ==
    /\ Importing(p, "start", {})
    /\ UNCHANGED <<channels, nextChannel, mode, filePresent, edits, accounted>>

ChannelTable ==
    \/ \E row \in Additions : AddChannel(row)
    \/ \E id \in DOMAIN channels : DeleteChannel(id)
    \/ \E m \in {"propose_only", "auto_pr"} : SetMode(m)

ChannelEdits ==
    \/ \E e \in Editors, id \in DOMAIN channels, updates \in Updates : ReadChannel(e, id, updates)
    \/ \E e \in Editors : CommitChannel(e) \/ EditFails(e)

ChannelImports ==
    \E p \in Importers :
        \/ BeginImport(p) \/ ImportMode(p) \/ ListKnown(p) \/ ImportChannel(p) \/ RemoveFile(p)
        \/ ImportEnds(p) \/ ImporterRestarts(p)

ChannelNext == ChannelTable \/ ChannelEdits \/ ChannelImports

ChannelSpec == ChannelInit /\ [][ChannelNext]_channelVars
=============================================================================
