------------------------------- MODULE IniFile -------------------------------
(***************************************************************************)
(* iniDoc: an ini file as its lines, and the edit of qBittorrent's         *)
(* preferences that ensureQBitWebUI makes on them.                         *)
(***************************************************************************)
EXTENDS Naturals, Sequences, SequencesExt, FiniteSetsExt

Ports == {"8080", "8099"}  \* the values that are numbers

(* A line as sectionRange and parseINIKeyValue see it.  An entry is plain  *)
(* when it is written key=value, without spaces.                           *)
Header(s) == [kind |-> "section", name |-> s]
Entry(k, v) == [kind |-> "entry", key |-> k, value |-> v, plain |-> TRUE]
Spaced(k, v) == [Entry(k, v) EXCEPT !.plain = FALSE]
Blank == [kind |-> "blank"]
Comment == [kind |-> "comment"]

-----------------------------------------------------------------------------
(* iniDoc.                                                                 *)

IsEntry(line, key) == line.kind = "entry" /\ line.key = key

HasSection(doc, s) == Contains(doc, Header(s))
SectionStart(doc, s) == Min({i \in DOMAIN doc : doc[i] = Header(s)})
SectionEnd(doc, s) ==
  Min({Len(doc) + 1} \cup
      {i \in DOMAIN doc : i > SectionStart(doc, s) /\ doc[i].kind = "section"})

(* The lines of the first section of this name that hold the key.          *)
Found(doc, s, key) ==
  IF HasSection(doc, s)
  THEN {i \in SectionStart(doc, s) .. SectionEnd(doc, s) - 1 : IsEntry(doc[i], key)}
  ELSE {}

Has(doc, s, key) == Found(doc, s, key) # {}
Get(doc, s, key) == doc[Min(Found(doc, s, key))].value

(* Where a new section goes: a blank line before it unless there is one.   *)
NewSection(doc, s, entry) ==
  (IF doc # <<>> /\ Last(doc).kind # "blank" THEN Append(doc, Blank) ELSE doc)
    \o <<Header(s), entry>>

(* Mutant: a new entry goes behind the header that ends the section.       *)
SetPastEnd(doc, s, key, value) ==
  IF ~ HasSection(doc, s) THEN NewSection(doc, s, Entry(key, value))
  ELSE IF Has(doc, s, key)
       THEN [doc EXCEPT ![Min(Found(doc, s, key))] = Entry(key, value)]
       ELSE InsertAt(doc, Min({SectionEnd(doc, s), Len(doc)}) + 1, Entry(key, value))

Set(doc, s, key, value) ==
  IF ~ HasSection(doc, s) THEN NewSection(doc, s, Entry(key, value))
  ELSE IF Has(doc, s, key)
       THEN [doc EXCEPT ![Min(Found(doc, s, key))] = Entry(key, value)]
       ELSE InsertAt(doc, SectionEnd(doc, s), Entry(key, value))

(* What Set returns, which is whether it changes the lines.                *)
SetChanges(doc, s, key, value) ==
  ~ (Has(doc, s, key) /\ doc[Min(Found(doc, s, key))] = Entry(key, value))

-----------------------------------------------------------------------------
(* ensureQBitWebUI.                                                        *)

(* Mutant: the port in the file is taken whatever it is.                   *)
PortForAny(doc) ==
  IF Has(doc, "Preferences", "Port") THEN Get(doc, "Preferences", "Port") ELSE "8080"

(* The port in the file if it is a number, for a run without --port.       *)
PortFor(doc) ==
  IF Has(doc, "Preferences", "Port") /\ Get(doc, "Preferences", "Port") \in Ports
  THEN Get(doc, "Preferences", "Port")
  ELSE "8080"

Settings == {"Enabled", "Address", "Port", "LocalHostAuth"}

Wanted(p) == [Enabled |-> "true", Address |-> "127.0.0.1", Port |-> p, LocalHostAuth |-> "false"]

(* One of them; changed says whether it or an earlier one made a change.    *)
SetNext(edit, key, p) ==
  [lines |-> Set(edit.lines, "Preferences", key, Wanted(p)[key]),
   changed |-> edit.changed \/ SetChanges(edit.lines, "Preferences", key, Wanted(p)[key])]

(* The four settings, one after the other, and whether one made a change.  *)
EnableWebUI(doc, p) ==
  LET enabled == SetNext([lines |-> doc, changed |-> FALSE], "Enabled", p)
      local == SetNext(enabled, "Address", p)
      onPort == SetNext(local, "Port", p)
  IN SetNext(onPort, "LocalHostAuth", p)
=============================================================================
