--------------------------- MODULE LanguageClient ---------------------------
(***************************************************************************)
(* IdeLangservClient, and the service that makes another one whenever the  *)
(* supervisor has spawned the language server again: the server is told    *)
(* of the documents that are open and of every edit, while documents are   *)
(* opened, reloaded, edited, renamed, closed and change their language.    *)
(*                                                                         *)
(* A text is the number of edits that made it.  What the server has of a   *)
(* document is what it will have once it has read what was sent to it.     *)
(***************************************************************************)
EXTENDS Naturals

CONSTANTS
  Documents,
  MaxEdits,       \* bound: edits and reloads of a document
  MaxClients,     \* bound: how often the server is spawned
  Unopened,       \* the server has no such document
  Garbled         \* the server has a text the document never had

ASSUME LanguageAssumption ==
  MaxEdits \in Nat /\ MaxClients \in Nat /\ Unopened \notin Nat /\ Garbled \notin Nat

VARIABLES
  (* the buffers *)
  open,           \* the documents that have one
  known,          \* those whose language the client supports
  textOf,
  (* the client *)
  clients,        \* how many there were
  connected,      \* rpc_client
  initializing,   \* the answer to "initialize" is awaited
  bound,          \* buffer_manager_signals has its target
  handlersOf,     \* how often a buffer's edits are passed on
  (* the server *)
  copy,
  astray          \* history: reloaded, renamed or of another language since the server knows it

documentVars == <<open, known, textOf>>
clientVars == <<clients, connected, initializing, bound>>
serverVars == <<handlersOf, copy, astray>>
languageVars == <<documentVars, clientVars, serverVars>>

(* ide_langserv_client_buffer_loaded, for the documents fs with the texts   *)
(* now                                                                      *)
Announce(fs, now) ==
  /\ handlersOf' = [f \in Documents |-> handlersOf[f] + (IF f \in fs THEN 1 ELSE 0)]
  /\ copy' = [f \in Documents |-> IF connected /\ f \in fs THEN now[f] ELSE copy[f]]

(* An edit is passed on once by each handler, and means nothing to a server *)
(* that has no such document; one that is passed on twice, or meant for     *)
(* another text, makes nonsense of the document.                            *)
Told(f) ==
  IF connected /\ copy[f] # Unopened /\ handlersOf[f] > 0
  THEN [copy EXCEPT ![f] =
         IF handlersOf[f] = 1 /\ copy[f] = textOf[f] THEN textOf[f] + 1 ELSE Garbled]
  ELSE copy

(* RustService._rls_spawned, ide_langserv_client_start: the old client is   *)
(* stopped, and whatever its handlers pass on goes nowhere.                 *)
Spawned ==
  /\ clients < MaxClients /\ clients' = clients + 1
  /\ connected' = TRUE /\ initializing' = TRUE /\ bound' = FALSE
  /\ handlersOf' = [f \in Documents |-> 0] /\ copy' = [f \in Documents |-> Unopened]
  /\ astray' = {}
  /\ UNCHANGED documentVars

(* mutant of OpenWhenBound: only what is opened later is announced *)
OnlyLater == {}

(* ide_langserv_client_buffer_manager_bind *)
OpenWhenBound == open \cap known

(* ide_langserv_client_initialize_cb *)
InitializeReturns(ok) ==
  /\ initializing /\ initializing' = FALSE
  /\ IF ok
     THEN bound' = TRUE /\ Announce(OpenWhenBound, textOf) /\ UNCHANGED connected
     ELSE connected' = FALSE /\ UNCHANGED <<bound, handlersOf, copy>>
  /\ UNCHANGED <<documentVars, clients, astray>>

(* ide_langserv_client_stop *)
StopClient ==
  /\ connected /\ connected' = FALSE
  /\ UNCHANGED <<documentVars, clients, initializing, bound, serverVars>>

(* A document is opened; of one that cannot be read there is a buffer, but  *)
(* nobody hears of it.                                                      *)
LoadDocument(f, ok, supported) ==
  /\ f \notin open
  /\ open' = open \cup {f}
  /\ known' = IF supported THEN known \cup {f} ELSE known
  /\ textOf' = [textOf EXCEPT ![f] = 0]
  /\ IF bound /\ ok /\ supported
     THEN Announce({f}, textOf') /\ astray' = astray \ {f}
     ELSE /\ astray' = IF bound /\ supported THEN astray \cup {f} ELSE astray
          /\ UNCHANGED <<handlersOf, copy>>
  /\ UNCHANGED clientVars

(* Loading it again replaces its text, and announces it again.              *)
ReloadDocument(f) ==
  /\ f \in open /\ textOf[f] < MaxEdits
  /\ textOf' = [textOf EXCEPT ![f] = textOf[f] + 1]
  /\ IF bound /\ f \in known
     THEN Announce({f}, textOf')
     ELSE copy' = Told(f) /\ UNCHANGED handlersOf
  /\ astray' = IF bound THEN astray \cup {f} ELSE astray
  /\ UNCHANGED <<open, known, clientVars>>

(* ide_langserv_client_buffer_insert_text,                                  *)
(* ide_langserv_client_buffer_delete_range                                  *)
EditDocument(f) ==
  /\ f \in open /\ textOf[f] < MaxEdits
  /\ textOf' = [textOf EXCEPT ![f] = textOf[f] + 1]
  /\ copy' = Told(f)
  /\ UNCHANGED <<open, known, clientVars, handlersOf, astray>>

(* Its language changes, of which the client does not hear.                 *)
Relabel(f) ==
  /\ f \in open
  /\ known' = IF f \in known THEN known \ {f} ELSE known \cup {f}
  /\ astray' = IF bound THEN astray \cup {f} ELSE astray
  /\ UNCHANGED <<open, textOf, clientVars, handlersOf, copy>>

(* It is saved under another name, of which the client does not hear        *)
(* either: it only tells the server that the new one was saved.             *)
SaveDocumentAs(f, g) ==
  /\ f \in open /\ g \notin open
  /\ open' = (open \ {f}) \cup {g}
  /\ known' = IF f \in known THEN (known \ {f}) \cup {g} ELSE known
  /\ textOf' = [textOf EXCEPT ![g] = textOf[f]]
  /\ handlersOf' = [handlersOf EXCEPT ![g] = handlersOf[f], ![f] = 0]
  /\ astray' = IF bound THEN astray \cup {f, g} ELSE astray
  /\ UNCHANGED <<clientVars, copy>>

(* ide_langserv_client_buffer_unloaded *)
Closed(f) == IF bound /\ connected /\ f \in known THEN [copy EXCEPT ![f] = Unopened] ELSE copy

CloseDocument(f) ==
  /\ f \in open
  /\ open' = open \ {f} /\ known' = known \ {f}
  /\ handlersOf' = [handlersOf EXCEPT ![f] = 0]
  /\ copy' = Closed(f)
  /\ UNCHANGED <<textOf, clientVars, astray>>

LanguageInit ==
  /\ open = {} /\ known = {} /\ textOf = [f \in Documents |-> 0]
  /\ clients = 0 /\ connected = FALSE /\ initializing = FALSE /\ bound = FALSE
  /\ handlersOf = [f \in Documents |-> 0] /\ copy = [f \in Documents |-> Unopened] /\ astray = {}

LanguageNext ==
  \/ Spawned \/ StopClient
  \/ \E ok \in BOOLEAN : InitializeReturns(ok)
  \/ \E f \in Documents :
       \/ \E ok, supported \in BOOLEAN : LoadDocument(f, ok, supported)
       \/ ReloadDocument(f) \/ EditDocument(f) \/ Relabel(f) \/ CloseDocument(f)
       \/ \E g \in Documents : SaveDocumentAs(f, g)

LanguageSpec == LanguageInit /\ [][LanguageNext]_languageVars

-----------------------------------------------------------------------------
LanguageTypeOK ==
  /\ open \subseteq Documents /\ known \subseteq open
  /\ textOf \in [Documents -> 0..MaxEdits]
  /\ clients \in 0..MaxClients
  /\ connected \in BOOLEAN /\ initializing \in BOOLEAN /\ bound \in BOOLEAN
  /\ handlersOf \in [Documents -> Nat]
  /\ copy \in [Documents -> 0..MaxEdits \cup {Unopened, Garbled}]
  /\ astray \subseteq Documents

(* Once it is initialized, the server has exactly the open documents whose  *)
(* language it knows, with the text they have, however edits, closing and   *)
(* opening fell between its start and its answer; but for those that were   *)
(* reloaded, renamed, could not be read or changed their language.          *)
ServerMirrors ==
  bound /\ connected => \A f \in Documents \ astray :
    copy[f] = IF f \in open \cap known THEN textOf[f] ELSE Unopened
=============================================================================
