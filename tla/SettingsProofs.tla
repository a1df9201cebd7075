--------------------------- MODULE SettingsProofs ---------------------------
(***************************************************************************)
(* Proofs about Settings, for any number of setconfig calls and            *)
(* notifications and any options: configuration and options agree and are  *)
(* valid, mails are tried as asked, aliases are those of one answer.       *)
(***************************************************************************)
EXTENDS Settings, TLAPS

(***************************************************************************)
(* The inductive invariant, part by part.                                  *)
(***************************************************************************)

SetterRecord ==
  [pc : {"idle", "check", "store", "activate"}, option : Options \cup {None},
   value : (UNION {Offered[o] : o \in Options}) \cup {None}]

\* The mutex is held from the check of a valid value to the end, ...
SetterHoldsLock(s) ==
  /\ setter[s].pc \in {"store", "activate"} <=> config_lock = s
  /\ setter[s].pc # "idle" => setter[s].option \in Options

\* ... and the options lack at most what its holder is about to store.
OptionsFollow ==
  /\ config_lock = None => options = config
  /\ \A s \in Setters :
       /\ setter[s].pc = "activate" => options = config
       /\ setter[s].pc = "store" =>
            config = [options EXCEPT ![setter[s].option] = setter[s].value]

\* The cache is emptied before listnodes is asked and until it is filled.
CacheOfOneAnswer ==
  /\ alias_cache \in {None, answer}
  /\ refresh # "asleep" => alias_cache = None

ConfigOK == DOMAIN config = Options /\ \A o \in Options : Usable(o, config[o])

SetInv ==
  /\ setter \in [Setters -> SetterRecord]
  /\ config_lock \in Setters \cup {None}
  /\ send_mail \in BOOLEAN
  /\ ConfigOK
  /\ \A s \in Setters : SetterHoldsLock(s)
  /\ OptionsFollow

NoteInv == note \in [Notifiers -> NoteRecord]

AliasInv ==
  /\ alias_cache \in Aliases \cup {None}
  /\ answer \in Aliases \cup {None}
  /\ refresh \in {"asleep", "asking", "listed"}
  /\ CacheOfOneAnswer

SettingsInv == SetInv /\ NoteInv /\ AliasInv

(***************************************************************************)
(* Facts.                                                                  *)
(***************************************************************************)

\* check_option lets in only what the users of an option can use.
LEMMA ValidIsUsable ==
  ASSUME NEW o, NEW v, Valid(o, v) PROVE Usable(o, v)
  BY DEF Valid, Usable

LEMMA VerbosityOK ==
  ASSUME ConfigOK PROVE config["notify-verbosity"] \in {"error", "accepted", "all"}
  <1>1. Usable("notify-verbosity", config["notify-verbosity"])
    BY SettingsAssumption DEF ConfigOK
  <1> QED BY <1>1 DEF Usable, Level

LEMMA SufficientBoolean == ASSUME NEW conf PROVE Sufficient(conf) \in BOOLEAN
  BY Zenon DEF Sufficient

LEMMA IdleSetterOK == IdleSetter \in SetterRecord /\ IdleSetter.pc = "idle"
  BY DEF IdleSetter, SetterRecord

LEMMA IdleNoteOK ==
  IdleNote \in NoteRecord /\ IdleNote.pc = "idle" /\ IdleNote.kind = None
    /\ IdleNote.asked = {} /\ ~Tried(IdleNote)
  BY DEF IdleNote, NoteRecord, Tried

LEMMA InitInv == Init => SettingsInv
  <1> SUFFICES ASSUME Init PROVE SettingsInv
    OBVIOUS
  <1>1. ConfigOK
    BY SettingsAssumption DEF Init, ConfigOK
  <1>2. send_mail \in BOOLEAN
    BY SufficientBoolean DEF Init
  <1>3. SetInv
    BY <1>1, <1>2, IdleSetterOK, SettingsAssumption DEF Init, SetInv, SetterHoldsLock, OptionsFollow
  <1>4. NoteInv
    BY IdleNoteOK DEF Init, NoteInv
  <1>5. AliasInv
    BY DEF Init, AliasInv, CacheOfOneAnswer
  <1> QED BY <1>3, <1>4, <1>5 DEF SettingsInv

(***************************************************************************)
(* setconfig.                                                              *)
(***************************************************************************)

LEMMA SetConfigInv ==
  ASSUME SetInv, NEW s \in Setters, NEW o \in Options, NEW v \in Offered[o],
         SetConfig(s, o, v)
  PROVE  SetInv'
  <1> DEFINE r == [pc |-> "check", option |-> o, value |-> v]
  <1>1. r \in SetterRecord
    BY DEF SetterRecord
  <1>2. setter' = [setter EXCEPT ![s] = r] /\ setter[s].pc = "idle"
    BY DEF SetConfig
  <1>3. setter' \in [Setters -> SetterRecord]
    BY <1>1, <1>2 DEF SetInv
  <1>4. UNCHANGED <<config, send_mail, config_lock, options>>
    BY DEF SetConfig
  <1>5. \A t \in Setters : SetterHoldsLock(t)'
    BY <1>2, <1>4 DEF SetInv, SetterHoldsLock
  <1>6. OptionsFollow'
    BY <1>2, <1>4 DEF SetInv, OptionsFollow
  <1>7. ConfigOK'
    BY <1>4 DEF SetInv, ConfigOK
  <1> QED BY <1>3, <1>4, <1>5, <1>6, <1>7 DEF SetInv

LEMMA CheckOptionInv ==
  ASSUME SetInv, NEW s \in Setters, CheckOption(s)
  PROVE  SetInv'
  <1> DEFINE o == setter[s].option
             v == setter[s].value
  <1>1. setter[s].pc = "check" /\ config_lock = None /\ o \in Options
    BY DEF CheckOption, SetInv, SetterHoldsLock
  <1>2. options = config
    BY <1>1 DEF SetInv, OptionsFollow
  <1>3. \A t \in Setters : setter[t].pc \notin {"store", "activate"}
    BY <1>1, SettingsAssumption DEF SetInv, SetterHoldsLock
  <1>4. UNCHANGED <<send_mail, options>>
    BY DEF CheckOption
  <1>5. CASE Valid(o, v)
    <2>1. /\ config_lock' = s
          /\ config' = [config EXCEPT ![o] = v]
          /\ setter' = [setter EXCEPT ![s].pc = "store"]
      BY <1>5 DEF CheckOption
    <2>2. ConfigOK'
      <3>1. DOMAIN config' = Options
        BY <2>1 DEF SetInv, ConfigOK
      <3>2. ASSUME NEW p \in Options PROVE Usable(p, config'[p])
        <4>1. CASE p = o
          BY <4>1, <2>1, <1>5, ValidIsUsable DEF SetInv, ConfigOK
        <4>2. CASE p # o
          BY <4>2, <2>1 DEF SetInv, ConfigOK
        <4> QED BY <4>1, <4>2
      <3> QED BY <3>1, <3>2 DEF ConfigOK
    <2>3. setter' \in [Setters -> SetterRecord]
      BY <2>1 DEF SetInv, SetterRecord
    <2>4. setter'[s].pc = "store" /\ setter'[s].option = o /\ setter'[s].value = v
      BY <2>1 DEF SetInv, SetterRecord
    <2>5. \A t \in Setters : t # s => setter'[t] = setter[t]
      BY <2>1 DEF SetInv
    <2>6. \A t \in Setters : SetterHoldsLock(t)'
      BY <1>1, <1>3, <2>1, <2>4, <2>5 DEF SetInv, SetterHoldsLock
    <2>7. OptionsFollow'
      <3>1. config_lock' # None
        BY <2>1, SettingsAssumption
      <3>2. config' = [options' EXCEPT ![setter'[s].option] = setter'[s].value]
        BY <1>2, <1>4, <2>1, <2>4
      <3> QED BY <3>1, <3>2, <2>4, <2>5, <1>3 DEF OptionsFollow
    <2> QED BY <1>4, <2>1, <2>2, <2>3, <2>6, <2>7 DEF SetInv
  <1>6. CASE ~Valid(o, v)
    <2>1. UNCHANGED <<config, config_lock>> /\ setter' = [setter EXCEPT ![s] = IdleSetter]
      BY <1>6 DEF CheckOption
    <2>2. setter' \in [Setters -> SetterRecord]
      BY <2>1, IdleSetterOK DEF SetInv
    <2>3. setter'[s].pc = "idle" /\ \A t \in Setters : t # s => setter'[t] = setter[t]
      BY <2>1, IdleSetterOK DEF SetInv
    <2>4. \A t \in Setters : SetterHoldsLock(t)'
      BY <1>1, <2>1, <2>3, SettingsAssumption DEF SetInv, SetterHoldsLock
    <2>5. OptionsFollow'
      BY <1>2, <1>3, <1>4, <2>1, <2>3 DEF OptionsFollow
    <2>6. ConfigOK'
      BY <2>1 DEF SetInv, ConfigOK
    <2> QED BY <1>4, <2>1, <2>2, <2>4, <2>5, <2>6 DEF SetInv
  <1> QED BY <1>5, <1>6

LEMMA StoreOptionInv ==
  ASSUME SetInv, NEW s \in Setters, StoreOption(s)
  PROVE  SetInv'
  <1>1. /\ setter[s].pc = "store"
        /\ options' = [options EXCEPT ![setter[s].option] = setter[s].value]
        /\ setter' = [setter EXCEPT ![s].pc = "activate"]
        /\ UNCHANGED <<config, send_mail, config_lock>>
    BY DEF StoreOption
  <1>2. config_lock = s /\ setter[s].option \in Options
    BY <1>1 DEF SetInv, SetterHoldsLock
  <1>3. options' = config
    BY <1>1 DEF SetInv, OptionsFollow
  <1>4. setter' \in [Setters -> SetterRecord]
    BY <1>1 DEF SetInv, SetterRecord
  <1>5. setter'[s].pc = "activate" /\ setter'[s].option = setter[s].option
    BY <1>1 DEF SetInv, SetterRecord
  <1>6. \A t \in Setters : t # s =>
          setter'[t] = setter[t] /\ setter[t].pc \notin {"store", "activate"}
    BY <1>1, <1>2 DEF SetInv, SetterHoldsLock
  <1>7. \A t \in Setters : SetterHoldsLock(t)'
    BY <1>1, <1>2, <1>5, <1>6 DEF SetInv, SetterHoldsLock
  <1>8. OptionsFollow'
    BY <1>1, <1>3, <1>5, <1>6 DEF OptionsFollow
  <1>9. ConfigOK'
    BY <1>1 DEF SetInv, ConfigOK
  <1> QED BY <1>1, <1>4, <1>7, <1>8, <1>9 DEF SetInv

LEMMA ActivateMailInv ==
  ASSUME SetInv, NEW s \in Setters, ActivateMail(s)
  PROVE  SetInv'
  <1>1. /\ setter[s].pc = "activate"
        /\ send_mail' = (send_mail \/ Sufficient(config))
        /\ config_lock' = None
        /\ setter' = [setter EXCEPT ![s] = IdleSetter]
        /\ UNCHANGED <<config, options>>
    BY DEF ActivateMail
  <1>2. config_lock = s /\ options = config
    BY <1>1 DEF SetInv, SetterHoldsLock, OptionsFollow
  <1>3. send_mail' \in BOOLEAN
    BY Zenon, <1>1, SufficientBoolean DEF SetInv
  <1>4. setter' \in [Setters -> SetterRecord]
    BY <1>1, IdleSetterOK DEF SetInv
  <1>5. setter'[s].pc = "idle"
    BY <1>1, IdleSetterOK DEF SetInv
  <1>6. \A t \in Setters : t # s =>
          setter'[t] = setter[t] /\ setter[t].pc \notin {"store", "activate"}
    BY <1>1, <1>2 DEF SetInv, SetterHoldsLock
  <1>7. \A t \in Setters : SetterHoldsLock(t)'
    BY <1>1, <1>5, <1>6, SettingsAssumption DEF SetInv, SetterHoldsLock
  <1>8. OptionsFollow'
    BY <1>1, <1>2, <1>5, <1>6 DEF OptionsFollow
  <1>9. ConfigOK'
    BY <1>1 DEF SetInv, ConfigOK
  <1> QED BY <1>1, <1>3, <1>4, <1>7, <1>8, <1>9 DEF SetInv

LEMMA SettingsUntouched ==
  ASSUME SetInv, UNCHANGED settingVars PROVE SetInv'
  BY DEF settingVars, SetInv, ConfigOK, OptionsFollow, SetterHoldsLock

(***************************************************************************)
(* Notifications.                                                          *)
(***************************************************************************)

\* A change setconfig makes only adds to what a notification is asked for.
LEMMA WitnessedInv ==
  ASSUME NoteInv, Witnessed PROVE NoteInv'
  <1>1. ASSUME NEW c \in Notifiers PROVE note'[c] \in NoteRecord
    <2> DEFINE seen == note[c].asked \cup {Asks(config', send_mail', note[c].level)}
    <2>1. CASE note[c].pc \in {"alias", "config"}
      <3>1. note'[c] = [note[c] EXCEPT !.asked = seen]
        BY <2>1 DEF Witnessed
      <3>2. note[c] \in NoteRecord
        BY DEF NoteInv
      <3>3. seen \in SUBSET BOOLEAN
        <4>1. Asks(config', send_mail', note[c].level) \in BOOLEAN
          BY Zenon DEF Asks
        <4>2. note[c].asked \in SUBSET BOOLEAN
          BY <3>2 DEF NoteRecord
        <4> QED BY <4>1, <4>2
      <3> HIDE DEF seen
      <3> QED BY <3>1, <3>2, <3>3 DEF NoteRecord
    <2>2. CASE note[c].pc \notin {"alias", "config"}
      BY <2>2 DEF Witnessed, NoteInv
    <2> QED BY <2>1, <2>2
  <1> QED BY <1>1 DEF Witnessed, NoteInv

LEMMA OneNote ==
  ASSUME NoteInv, NEW c \in Notifiers, NEW r \in NoteRecord, note' = [note EXCEPT ![c] = r]
  PROVE  NoteInv'
  BY DEF NoteInv

LEMMA BegunOK ==
  ASSUME NEW k \in {"opening", "testmail", "testrule"}, NEW level \in DOMAIN Level
  PROVE  /\ Begun(k, level) \in NoteRecord
         /\ Begun(k, level).kind = k
         /\ Begun(k, level).pc = "alias"
         /\ Begun(k, level).level = level
  <1>1. Asks(config, send_mail, level) \in BOOLEAN
    BY Zenon DEF Asks
  <1> QED BY <1>1 DEF Begun, IdleNote, NoteRecord

LEMMA NotifyOutcomeInv ==
  ASSUME NoteInv, NEW c \in Notifiers, NEW level \in DOMAIN Level, NotifyOutcome(c, level)
  PROVE  NoteInv'
  <1> DEFINE r == Begun("opening", level)
  <1>1. r \in NoteRecord
    BY BegunOK
  <1>2. note' = [note EXCEPT ![c] = r]
    BY DEF NotifyOutcome
  <1> HIDE DEF r
  <1> QED BY <1>1, <1>2, OneNote

LEMMA TestInv ==
  ASSUME NoteInv, NEW c \in Notifiers, NEW k \in {"testmail", "testrule"}, Test(c, k)
  PROVE  NoteInv'
  <1> DEFINE r == IF send_mail THEN Begun(k, "error")
                  ELSE [IdleNote EXCEPT !.pc = "answered", !.kind = k]
  <1>1. note' = [note EXCEPT ![c] = r]
    BY DEF Test
  <1>2. Begun(k, "error") \in NoteRecord
    BY BegunOK DEF Level
  <1>3. [IdleNote EXCEPT !.pc = "answered", !.kind = k] \in NoteRecord
    BY DEF IdleNote, NoteRecord
  <1>4. r \in NoteRecord
    BY <1>2, <1>3
  <1> HIDE DEF r
  <1> QED BY <1>1, <1>4, OneNote

LEMMA ReadAliasInv ==
  ASSUME SettingsInv, NEW c \in Notifiers, ReadAlias(c)
  PROVE  NoteInv'
  <1> DEFINE a == IF note[c].kind = "testmail" THEN None ELSE alias_cache
             r == [note[c] EXCEPT !.pc = "config", !.alias = a]
  <1>1. note[c] \in NoteRecord /\ NoteInv
    BY DEF SettingsInv, NoteInv
  <1>2. a \in Aliases \cup {None}
    BY DEF SettingsInv, AliasInv
  <1>3. note' = [note EXCEPT ![c] = r]
    BY DEF ReadAlias
  <1> HIDE DEF a
  <1>4. r \in NoteRecord
    BY <1>1, <1>2 DEF NoteRecord
  <1> HIDE DEF r
  <1> QED BY <1>1, <1>3, <1>4, OneNote

LEMMA CloneConfigInv ==
  ASSUME NoteInv, NEW c \in Notifiers, CloneConfig(c)
  PROVE  NoteInv'
  <1> DEFINE due == send_mail /\ Level[config["notify-verbosity"]] >= Level[note[c].level]
             pc == IF due THEN "mail" ELSE "answered"
             parse == AddressesParse
             enough == Sufficient(config)
             r == [note[c] EXCEPT !.pc = pc, !.parse = parse, !.enough = enough]
  <1>1. note[c] \in NoteRecord
    BY DEF NoteInv
  <1>2. note' = [note EXCEPT ![c] = r]
    BY DEF CloneConfig
  <1>3. pc \in {"mail", "answered"}
    OBVIOUS
  <1>4. parse \in BOOLEAN /\ enough \in BOOLEAN
    BY SufficientBoolean DEF AddressesParse
  <1> HIDE DEF pc, parse, enough
  <1>5. r \in NoteRecord
    BY <1>1, <1>3, <1>4 DEF NoteRecord
  <1> HIDE DEF r
  <1> QED BY <1>2, <1>5, OneNote

\* A step of a mail: r is what becomes of the notification n.
AfterMail(n, r) ==
  \/ \E pc \in {"panicked", "sending"} : r = [n EXCEPT !.pc = pc]
  \/ \E result \in {"sent", "failed"} : r = [n EXCEPT !.pc = "answered", !.result = result]

LEMMA MailSteps ==
  ASSUME NEW c \in Notifiers, SendMail(c) \/ MailEnds(c)
  PROVE  /\ note[c].pc \in {"mail", "sending"}
         /\ \E r : note' = [note EXCEPT ![c] = r] /\ AfterMail(note[c], r)
  <1>1. note[c].pc \in {"mail", "sending"}
    BY DEF SendMail, MailEnds
  <1>2. CASE \E pc \in {"panicked", "sending"} : note' = [note EXCEPT ![c].pc = pc]
    <2>1. PICK pc \in {"panicked", "sending"} : note' = [note EXCEPT ![c].pc = pc]
      BY <1>2
    <2> DEFINE r == [note[c] EXCEPT !.pc = pc]
    <2>2. note' = [note EXCEPT ![c] = r]
      BY <2>1
    <2>3. AfterMail(note[c], r)
      BY DEF AfterMail
    <2> HIDE DEF r
    <2> QED BY <1>1, <2>2, <2>3
  <1>3. CASE \E result \in {"sent", "failed"} :
               note' = [note EXCEPT ![c].pc = "answered", ![c].result = result]
    <2>1. PICK result \in {"sent", "failed"} :
            note' = [note EXCEPT ![c].pc = "answered", ![c].result = result]
      BY <1>3
    <2> DEFINE r == [note[c] EXCEPT !.pc = "answered", !.result = result]
    <2>2. note' = [note EXCEPT ![c] = r]
      BY <2>1
    <2>3. AfterMail(note[c], r)
      BY DEF AfterMail
    <2> HIDE DEF r
    <2> QED BY <1>1, <2>2, <2>3
  <1> QED BY <1>2, <1>3 DEF SendMail, MailEnds

LEMMA AfterMailOK ==
  ASSUME NEW n \in NoteRecord, NEW r, AfterMail(n, r)
  PROVE  /\ r \in NoteRecord
         /\ r.kind = n.kind /\ r.asked = n.asked
         /\ r.pc \in {"sending", "panicked"} \/ (r.pc = "answered" /\ Tried(r))
  <1>1. ASSUME NEW pc \in {"panicked", "sending"}, r = [n EXCEPT !.pc = pc]
        PROVE  /\ r \in NoteRecord
               /\ r.kind = n.kind /\ r.asked = n.asked
               /\ r.pc \in {"sending", "panicked"}
    <2>1. r \in NoteRecord
      BY <1>1 DEF NoteRecord
    <2>2. r.kind = n.kind /\ r.asked = n.asked /\ r.pc = pc
      BY <1>1 DEF NoteRecord
    <2> QED BY <2>1, <2>2
  <1>2. ASSUME NEW result \in {"sent", "failed"},
               r = [n EXCEPT !.pc = "answered", !.result = result]
        PROVE  /\ r \in NoteRecord
               /\ r.kind = n.kind /\ r.asked = n.asked
               /\ r.pc = "answered" /\ Tried(r)
    <2>1. r \in NoteRecord
      BY <1>2 DEF NoteRecord
    <2>2. r.kind = n.kind /\ r.asked = n.asked /\ r.pc = "answered" /\ r.result = result
      BY <1>2 DEF NoteRecord
    <2>3. result # None
      BY SettingsAssumption
    <2> QED BY <2>1, <2>2, <2>3 DEF Tried
  <1>3. CASE \E pc \in {"panicked", "sending"} : r = [n EXCEPT !.pc = pc]
    <2>1. PICK pc \in {"panicked", "sending"} : r = [n EXCEPT !.pc = pc]
      BY <1>3
    <2>2. r \in NoteRecord /\ r.kind = n.kind /\ r.asked = n.asked
      BY <1>1, <2>1
    <2>3. r.pc \in {"sending", "panicked"}
      BY <1>1, <2>1
    <2> QED BY <2>2, <2>3
  <1>4. CASE \E result \in {"sent", "failed"} :
               r = [n EXCEPT !.pc = "answered", !.result = result]
    <2>1. PICK result \in {"sent", "failed"} :
            r = [n EXCEPT !.pc = "answered", !.result = result]
      BY <1>4
    <2> QED BY <1>2, <2>1
  <1> QED BY Zenon, <1>3, <1>4 DEF AfterMail

LEMMA MailInv ==
  ASSUME NoteInv, NEW c \in Notifiers, SendMail(c) \/ MailEnds(c)
  PROVE  NoteInv'
  <1>1. PICK r : note' = [note EXCEPT ![c] = r] /\ AfterMail(note[c], r)
    BY MailSteps
  <1>2. r \in NoteRecord
    BY <1>1, AfterMailOK DEF NoteInv
  <1> QED BY <1>1, <1>2, OneNote

LEMMA AnsweredInv ==
  ASSUME NoteInv, NEW c \in Notifiers, Answered(c)
  PROVE  NoteInv'
  BY IdleNoteOK, OneNote DEF Answered

(***************************************************************************)
(* Aliases.                                                                *)
(***************************************************************************)

LEMMA AliasesUntouched ==
  ASSUME AliasInv, UNCHANGED aliasVars PROVE AliasInv'
  BY DEF AliasInv, CacheOfOneAnswer, aliasVars

LEMMA RefreshInv ==
  ASSUME AliasInv,
         \/ RefreshBegins \/ RefreshFails \/ RefreshFills
         \/ \E a \in Aliases \cup {None} : NodesListed(a)
  PROVE  AliasInv'
  <1>1. CASE RefreshBegins
    BY <1>1 DEF RefreshBegins, AliasInv, CacheOfOneAnswer
  <1>2. CASE RefreshFails
    BY <1>2 DEF RefreshFails, AliasInv, CacheOfOneAnswer
  <1>3. CASE RefreshFills
    BY <1>3 DEF RefreshFills, AliasInv, CacheOfOneAnswer
  <1>4. ASSUME NEW a \in Aliases \cup {None}, NodesListed(a) PROVE AliasInv'
    BY <1>4 DEF NodesListed, AliasInv, CacheOfOneAnswer
  <1> QED BY <1>1, <1>2, <1>3, <1>4

(***************************************************************************)
(* Steps.                                                                  *)
(***************************************************************************)

LEMMA NextInv ==
  ASSUME SettingsInv, [Next]_vars PROVE SettingsInv'
  <1>1. SetInv /\ NoteInv /\ AliasInv
    BY DEF SettingsInv
  <1>2. ASSUME NEW s \in Setters, NEW o \in Options, NEW v \in Offered[o], SetConfig(s, o, v)
        PROVE  SettingsInv'
    <2>1. SetInv'
      BY <1>1, <1>2, SetConfigInv
    <2>2. NoteInv'
      BY <1>1, <1>2 DEF SetConfig, NoteInv
    <2>3. AliasInv'
      BY <1>1, <1>2, AliasesUntouched DEF SetConfig
    <2> QED BY <2>1, <2>2, <2>3 DEF SettingsInv
  <1>3. ASSUME NEW s \in Setters, CheckOption(s) PROVE SettingsInv'
    <2>1. SetInv'
      BY <1>1, <1>3, CheckOptionInv
    <2>2. Witnessed /\ UNCHANGED aliasVars
      BY <1>3 DEF CheckOption
    <2>3. NoteInv'
      BY <1>1, <2>2, WitnessedInv
    <2>4. AliasInv'
      BY <1>1, <2>2, AliasesUntouched
    <2> QED BY <2>1, <2>3, <2>4 DEF SettingsInv
  <1>4. ASSUME NEW s \in Setters, StoreOption(s) PROVE SettingsInv'
    <2>1. SetInv'
      BY <1>1, <1>4, StoreOptionInv
    <2>2. NoteInv'
      BY <1>1, <1>4 DEF StoreOption, NoteInv
    <2>3. AliasInv'
      BY <1>1, <1>4, AliasesUntouched DEF StoreOption
    <2> QED BY <2>1, <2>2, <2>3 DEF SettingsInv
  <1>5. ASSUME NEW s \in Setters, ActivateMail(s) PROVE SettingsInv'
    <2>1. SetInv'
      BY <1>1, <1>5, ActivateMailInv
    <2>2. Witnessed /\ UNCHANGED aliasVars
      BY <1>5 DEF ActivateMail
    <2>3. NoteInv'
      BY <1>1, <2>2, WitnessedInv
    <2>4. AliasInv'
      BY <1>1, <2>2, AliasesUntouched
    <2> QED BY <2>1, <2>3, <2>4 DEF SettingsInv
  <1>6. ASSUME NEW c \in Notifiers,
               \/ \E level \in DOMAIN Level : NotifyOutcome(c, level)
               \/ \E k \in {"testmail", "testrule"} : Test(c, k)
               \/ NoteStep(c) \/ Answered(c)
        PROVE  SettingsInv'
    <2>1. NoteInv'
      BY <1>1, <1>6, NotifyOutcomeInv, TestInv, ReadAliasInv, CloneConfigInv, MailInv,
         AnsweredInv DEF NoteStep
    <2>2. UNCHANGED settingVars /\ UNCHANGED aliasVars
      BY <1>6 DEF NotifyOutcome, Test, NoteStep, ReadAlias, CloneConfig, SendMail, MailEnds, Answered
    <2> QED BY <1>1, <2>1, <2>2, SettingsUntouched, AliasesUntouched DEF SettingsInv
  <1>7. ASSUME \/ RefreshBegins \/ RefreshFails \/ RefreshFills
               \/ \E a \in Aliases \cup {None} : NodesListed(a)
        PROVE  SettingsInv'
    <2>1. UNCHANGED settingVars /\ UNCHANGED note
      BY <1>7 DEF RefreshBegins, RefreshFails, RefreshFills, NodesListed
    <2>2. SetInv'
      BY <1>1, <2>1, SettingsUntouched
    <2>3. NoteInv'
      BY <1>1, <2>1 DEF NoteInv
    <2> QED BY <1>1, <1>7, <2>2, <2>3, RefreshInv DEF SettingsInv
  <1>8. ASSUME UNCHANGED vars PROVE SettingsInv'
    <2>1. UNCHANGED settingVars /\ UNCHANGED note /\ UNCHANGED aliasVars
      BY <1>8 DEF vars, settingVars, aliasVars
    <2>2. SetInv' /\ AliasInv'
      BY <1>1, <2>1, SettingsUntouched, AliasesUntouched
    <2>3. NoteInv'
      BY <1>1, <2>1 DEF NoteInv
    <2> QED BY <2>2, <2>3 DEF SettingsInv
  <1> QED
    BY <1>2, <1>3, <1>4, <1>5, <1>6, <1>7, <1>8 DEF Next, SetterStep

(***************************************************************************)
(* Theorems.                                                               *)
(***************************************************************************)

\* The invariant is inductive, whatever the options and however many calls.
THEOREM SettingsInvariant == Spec => []SettingsInv
  <1>1. Init => SettingsInv
    BY InitInv
  <1>2. SettingsInv /\ [Next]_vars => SettingsInv'
    BY NextInv
  <1> QED BY <1>1, <1>2, PTL DEF Spec

\* Only values their users can use reach the configuration: check_option's
\* conditions imply what the hooks unwrap, in whatever order setconfigs come.
THEOREM ConfigurationIsUsable == Spec => []TypeOK
  <1>1. SettingsInv => TypeOK
    <2> SUFFICES ASSUME SettingsInv PROVE TypeOK
      OBVIOUS
    <2>1. \A s \in Setters :
            /\ setter[s].pc \in {"idle", "check", "store", "activate"}
            /\ setter[s].pc \in {"store", "activate"} => config_lock = s
      BY DEF SettingsInv, SetInv, SetterHoldsLock, SetterRecord
    <2> QED BY <2>1 DEF TypeOK, SettingsInv, SetInv, ConfigOK, NoteInv, AliasInv
  <1> QED BY <1>1, SettingsInvariant, PTL

\* The configuration the hooks read and the options clnrod-reload reads agree
\* whenever the mutex is free.
THEOREM ConfigurationsAgree == Spec => []OneConfiguration
  <1>1. SettingsInv => OneConfiguration
    BY DEF SettingsInv, SetInv, OptionsFollow, OneConfiguration
  <1> QED BY <1>1, SettingsInvariant, PTL

\* Aliases shown are those of the last answer of listnodes.
THEOREM OneAnswerOfAliases == Spec => []AliasesAreOfOneAnswer
  <1>1. SettingsInv => AliasesAreOfOneAnswer
    BY DEF SettingsInv, AliasInv, CacheOfOneAnswer, AliasesAreOfOneAnswer
  <1> QED BY <1>1, SettingsInvariant, PTL

(***************************************************************************)
(* A mail is tried as the verbosity asked.                                 *)
(***************************************************************************)

\* What is asked for now is among what was asked for, and when the
\* configuration is read that decides.
AskedSoFar(c) ==
  note[c].kind = "opening" =>
    /\ note[c].pc \in {"alias", "config"} =>
         /\ note[c].level \in DOMAIN Level
         /\ ~Tried(note[c])
         /\ Asks(config, send_mail, note[c].level) \in note[c].asked
    /\ note[c].pc \in {"mail", "sending"} => TRUE \in note[c].asked
    /\ note[c].pc = "answered" => Tried(note[c]) \in note[c].asked

AskedInv == \A c \in Notifiers : AskedSoFar(c)

\* Comparing verbosities gives what the README says each is told about.
LEMMA DueIsAsked ==
  ASSUME SettingsInv, NEW level \in DOMAIN Level
  PROVE  Asks(config, send_mail, level)
           <=> send_mail /\ Level[config["notify-verbosity"]] >= Level[level]
  <1>1. config["notify-verbosity"] \in {"error", "accepted", "all"}
    BY VerbosityOK DEF SettingsInv, SetInv
  <1>2. level \in {"error", "accepted", "all"}
    BY DEF Level
  <1>3. level \in Covered[config["notify-verbosity"]]
          <=> Level[config["notify-verbosity"]] >= Level[level]
    BY <1>1, <1>2 DEF Covered, Level
  <1> QED BY <1>3 DEF Asks

LEMMA AskedOneNote ==
  ASSUME SettingsInv, AskedInv, NEW c \in Notifiers, NEW r,
         note' = [note EXCEPT ![c] = r], UNCHANGED <<config, send_mail>>,
         r.kind = "opening" =>
           /\ r.pc \in {"alias", "config"} =>
                /\ r.level \in DOMAIN Level
                /\ ~Tried(r)
                /\ Asks(config, send_mail, r.level) \in r.asked
           /\ r.pc \in {"mail", "sending"} => TRUE \in r.asked
           /\ r.pc = "answered" => Tried(r) \in r.asked
  PROVE  AskedInv'
  <1>1. note'[c] = r /\ \A d \in Notifiers : d # c => note'[d] = note[d]
    BY DEF SettingsInv, NoteInv
  <1>2. ASSUME NEW d \in Notifiers PROVE AskedSoFar(d)'
    <2>1. CASE d = c
      BY <1>1, <2>1 DEF AskedSoFar, Asks
    <2>2. CASE d # c
      BY <1>1, <2>2 DEF AskedInv, AskedSoFar, Asks
    <2> QED BY <2>1, <2>2
  <1> QED BY <1>2 DEF AskedInv

LEMMA AskedWitnessed ==
  ASSUME SettingsInv, AskedInv, Witnessed PROVE AskedInv'
  <1> SUFFICES ASSUME NEW c \in Notifiers PROVE AskedSoFar(c)'
    BY DEF AskedInv
  <1>1. note[c] \in NoteRecord /\ AskedSoFar(c)
    BY DEF SettingsInv, NoteInv, AskedInv
  <1>2. CASE note[c].pc \in {"alias", "config"}
    <2> DEFINE seen == Asks(config', send_mail', note[c].level)
    <2>1. note'[c] = [note[c] EXCEPT !.asked = @ \cup {seen}]
      BY <1>2 DEF Witnessed
    <2>2. /\ note'[c].asked = note[c].asked \cup {seen} /\ note'[c].kind = note[c].kind
          /\ note'[c].pc = note[c].pc /\ note'[c].level = note[c].level
          /\ Tried(note'[c]) = Tried(note[c])
      BY <1>1, <2>1 DEF NoteRecord, Tried
    <2> QED BY <1>1, <1>2, <2>2 DEF AskedSoFar
  <1>3. CASE note[c].pc \notin {"alias", "config"}
    <2>1. note'[c] = note[c]
      BY <1>3 DEF Witnessed
    <2> QED BY <1>1, <1>3, <2>1 DEF AskedSoFar
  <1> QED BY <1>2, <1>3

LEMMA AskedBegins ==
  ASSUME SettingsInv, AskedInv, NEW c \in Notifiers, NEW level \in DOMAIN Level,
         NotifyOutcome(c, level)
  PROVE  AskedInv'
  <1> DEFINE r == Begun("opening", level)
  <1>1. note' = [note EXCEPT ![c] = r] /\ UNCHANGED <<config, send_mail>>
    BY DEF NotifyOutcome, settingVars
  <1>2. /\ r.kind = "opening" /\ r.pc = "alias" /\ r.level = level /\ ~Tried(r)
        /\ Asks(config, send_mail, level) \in r.asked
    BY DEF Begun, IdleNote, Tried
  <1> HIDE DEF r
  <1> QED BY <1>1, <1>2, AskedOneNote

LEMMA AskedTest ==
  ASSUME SettingsInv, AskedInv, NEW c \in Notifiers, NEW k \in {"testmail", "testrule"},
         Test(c, k)
  PROVE  AskedInv'
  <1> DEFINE r == IF send_mail THEN Begun(k, "error")
                  ELSE [IdleNote EXCEPT !.pc = "answered", !.kind = k]
  <1>1. note' = [note EXCEPT ![c] = r] /\ UNCHANGED <<config, send_mail>>
    BY DEF Test, settingVars
  <1>2. r.kind = k
    BY BegunOK DEF Begun, IdleNote
  <1> HIDE DEF r
  <1> QED BY <1>1, <1>2, AskedOneNote

LEMMA AskedSteps ==
  ASSUME SettingsInv, AskedInv, NEW c \in Notifiers, NoteStep(c) \/ Answered(c)
  PROVE  AskedInv'
  <1> DEFINE n == note[c]
  <1>1. n \in NoteRecord /\ AskedSoFar(c)
    BY DEF SettingsInv, NoteInv, AskedInv
  <1>2. UNCHANGED <<config, send_mail>>
    BY DEF NoteStep, ReadAlias, CloneConfig, SendMail, MailEnds, Answered, settingVars
  <1>3. CASE ReadAlias(c)
    <2> DEFINE a == IF n.kind = "testmail" THEN None ELSE alias_cache
               r == [n EXCEPT !.pc = "config", !.alias = a]
    <2>1. note' = [note EXCEPT ![c] = r] /\ n.pc = "alias"
      BY <1>3 DEF ReadAlias
    <2> HIDE DEF a
    <2>2. /\ r.pc = "config" /\ r.kind = n.kind /\ r.level = n.level
          /\ Tried(r) = Tried(n) /\ r.asked = n.asked
      BY <1>1 DEF NoteRecord, Tried
    <2> HIDE DEF r
    <2> QED BY <1>1, <1>2, <2>1, <2>2, AskedOneNote DEF AskedSoFar
  <1>4. CASE CloneConfig(c)
    <2> DEFINE due == send_mail /\ Level[config["notify-verbosity"]] >= Level[n.level]
               pc == IF due THEN "mail" ELSE "answered"
               parse == AddressesParse
               enough == Sufficient(config)
               r == [n EXCEPT !.pc = pc, !.parse = parse, !.enough = enough]
    <2>1. note' = [note EXCEPT ![c] = r] /\ n.pc = "config"
      BY <1>4 DEF CloneConfig
    <2>2. pc = (IF due THEN "mail" ELSE "answered")
      OBVIOUS
    <2>3. n.kind = "opening" => (Asks(config, send_mail, n.level) <=> due)
      BY <1>1, <2>1, DueIsAsked DEF AskedSoFar
    <2>4. Asks(config, send_mail, n.level) \in BOOLEAN
      BY Zenon DEF Asks
    <2>5. Tried(n) \in BOOLEAN
      BY Zenon DEF Tried
    <2> HIDE DEF due, pc, parse, enough
    <2>6. r.pc = pc /\ r.kind = n.kind /\ r.asked = n.asked /\ Tried(r) = Tried(n)
      BY <1>1 DEF NoteRecord, Tried
    <2> HIDE DEF r
    <2>7. CASE due
      <3>1. pc = "mail"
        BY <2>2, <2>7
      <3>2. n.kind = "opening" => TRUE \in n.asked
        <4>1. n.kind = "opening" => Asks(config, send_mail, n.level) = TRUE
          BY <2>3, <2>4, <2>7
        <4> QED BY <1>1, <2>1, <4>1 DEF AskedSoFar
      <3> QED BY <1>2, <2>1, <2>6, <3>1, <3>2, AskedOneNote
    <2>8. CASE ~due
      <3>1. pc = "answered"
        BY <2>2, <2>8
      <3>2. n.kind = "opening" => Tried(n) \in n.asked
        <4>1. n.kind = "opening" => Asks(config, send_mail, n.level) = FALSE
          BY <2>3, <2>4, <2>8
        <4>2. n.kind = "opening" => Tried(n) = FALSE
          BY <1>1, <2>1, <2>5 DEF AskedSoFar
        <4> QED BY <1>1, <2>1, <4>1, <4>2 DEF AskedSoFar
      <3> QED BY <1>2, <2>1, <2>6, <3>1, <3>2, AskedOneNote
    <2> QED BY <2>7, <2>8
  <1>5. CASE SendMail(c) \/ MailEnds(c)
    <2>1. PICK r : note' = [note EXCEPT ![c] = r] /\ AfterMail(n, r)
      BY <1>5, MailSteps
    <2>2. /\ r.kind = n.kind /\ r.asked = n.asked
          /\ r.pc \in {"sending", "panicked"} \/ (r.pc = "answered" /\ Tried(r))
      BY <1>1, <2>1, AfterMailOK
    <2>3. n.kind = "opening" => TRUE \in n.asked
      BY <1>1, <1>5, MailSteps DEF AskedSoFar
    <2>4. r.pc = "answered" => Tried(r) = TRUE
      BY <2>2 DEF Tried
    <2> QED BY <1>2, <2>1, <2>2, <2>3, <2>4, AskedOneNote
  <1>6. CASE Answered(c)
    <2>1. note' = [note EXCEPT ![c] = IdleNote]
      BY <1>6 DEF Answered
    <2> QED BY <1>2, <2>1, IdleNoteOK, AskedOneNote
  <1> QED BY <1>3, <1>4, <1>5, <1>6 DEF NoteStep

LEMMA AskedUntouched ==
  ASSUME AskedInv, UNCHANGED <<config, send_mail, note>> PROVE AskedInv'
  BY DEF AskedInv, AskedSoFar, Asks

LEMMA AskedNext ==
  ASSUME SettingsInv, AskedInv, [Next]_vars PROVE AskedInv'
  <1>1. ASSUME NEW s \in Setters, CheckOption(s) \/ ActivateMail(s) PROVE AskedInv'
    BY <1>1, AskedWitnessed DEF CheckOption, ActivateMail
  <1>2. ASSUME NEW s \in Setters,
               \/ StoreOption(s)
               \/ \E o \in Options : \E v \in Offered[o] : SetConfig(s, o, v)
        PROVE  AskedInv'
    BY <1>2, AskedUntouched DEF StoreOption, SetConfig
  <1>3. ASSUME \/ RefreshBegins \/ RefreshFails \/ RefreshFills
               \/ \E a \in Aliases \cup {None} : NodesListed(a)
               \/ UNCHANGED vars
        PROVE  AskedInv'
    BY <1>3, AskedUntouched DEF RefreshBegins, RefreshFails, RefreshFills, NodesListed,
       settingVars, vars
  <1> QED BY <1>1, <1>2, <1>3, AskedBegins, AskedTest, AskedSteps DEF Next, SetterStep

\* When the answer to an opening goes out a mail was tried to its end exactly
\* if one was asked for while the notification was made, however the options
\* change meanwhile.
THEOREM MailsAsAsked == Spec => []MailsFollowVerbosity
  <1>1. Init => AskedInv
    BY IdleNoteOK DEF Init, AskedInv, AskedSoFar, IdleNote
  <1>2. SettingsInv /\ AskedInv /\ [Next]_vars => AskedInv'
    BY AskedNext
  <1>3. AskedInv => MailsFollowVerbosity
    BY DEF AskedInv, AskedSoFar, MailsFollowVerbosity
  <1> QED BY <1>1, <1>2, <1>3, SettingsInvariant, PTL DEF Spec
=============================================================================
