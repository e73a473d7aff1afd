-------------------------- MODULE ChannelSettingsProps --------------------------
(* What the settings must guarantee. *)
EXTENDS ChannelSettings

ChannelTypeOK ==
    /\ nextChannel \in 1..(MaxChannels + 1) /\ DOMAIN channels \subseteq 1..(nextChannel - 1)
    /\ \A id \in DOMAIN channels : DOMAIN channels[id] = Columns
    /\ filePresent \in BOOLEAN /\ accounted \subseteq LegacyNames
    /\ \A p \in Importers : imports[p].stage \in {"start", "mode", "list", "adding", "done"}
    /\ \A e \in Editors : edits[e] = NoEdit \/ edits[e].id \in 1..(nextChannel - 1)

(* The file, which holds secrets, is removed only when each of its channels *)
(* was added or was there, wherever the processes that import it fail, die *)
(* and start again, and even when two of them do it at once                *)
(* (_import_legacy_settings). *)
RemovedWhenImported == ~filePresent => LegacyNames \subseteq accounted

(* A column of a channel changes only to what a request that names the     *)
(* column asks for, however requests for the same channel overlap; and a   *)
(* URL never to the mask that clients are shown (update_channel). *)
EditsAsAsked ==
    [][\A id \in DOMAIN channels \cap DOMAIN channels' : \A c \in DOMAIN channels[id] :
          channels'[id][c] # channels[id][c] =>
              \E e \in Editors :
                  /\ edits[e].id = id /\ edits'[e] = NoEdit
                  /\ c \in DOMAIN edits[e].updates
                  /\ channels'[id][c] = edits[e].updates[c]
                  /\ c = "url" => channels'[id].url # MaskedUrl]_channelVars
=============================================================================
