---------------------------------- MODULE XLog ----------------------------------
(***************************************************************************)
(* XLogger (util/XLog.cpp), whose calls take m_mutex for their parts but   *)
(* not for the whole, and XLogUtil, whose mutex is held throughout and     *)
(* which writes every text at once.  A log file is set, and may fail to    *)
(* open; that its name changes with the hour, and the time written before  *)
(* each text of XLogUtil, are left out.                                    *)
(*                                                                         *)
(* A text is the number of its call and takes one unit of the buffer: that *)
(* a text of size 0 or MAX_LOG_BUFFER is put off for ever is not modelled. *)
(***************************************************************************)
EXTENDS Naturals, Sequences, SequencesExt

CONSTANTS
    Users,          \* threads that log
    NoUser,
    MaxLogBuffer,   \* MAX_LOG_BUFFER, in texts
    MaxTexts        \* bound: texts logged

LogAssumption == NoUser \notin Users /\ MaxLogBuffer \in Nat \ {0} /\ MaxTexts \in Nat

VARIABLES
    util,           \* the threads log through XLogUtil
    mutex,          \* who holds its m_mutex
    pLogFile,       \* m_pLogFile is not NULL
    buffer,         \* m_szBuffer, up to m_bufferIndex
    file,           \* what the log file holds
    todo,           \* what each thread has still to do of its call
    text,           \* the text it logs
    says,           \* what each call writes: the text of that number
    szText,         \* m_szText: the last text of XLogUtil::writeLog, at first none
    logged,         \* the calls, less those that found the file not to open
    raced,          \* two calls of XLogger overlapped
    mixed           \* a text was written at once while others were in the buffer

vars == << util, mutex, pLogFile, buffer, file, todo, text, says, szText, logged,
           raced, mixed >>

Init ==
    /\ util \in BOOLEAN
    /\ mutex = NoUser
    /\ pLogFile = FALSE /\ buffer = <<>> /\ file = <<>>
    /\ todo = [t \in Users |-> <<>>]
    /\ text = [t \in Users |-> 0]
    /\ says = <<>> /\ szText = 0 /\ logged = <<>>
    /\ raced = FALSE /\ mixed = FALSE

Flush == << "openFile", "writeFile", "closeFile" >>
WriteToFile == << "openFile", "fwrite", "closeFile" >>
Busy == \E t \in Users : todo[t] # <<>>
--------------------------------------------------------------------------------
UtilUnlocked(t) == UNCHANGED mutex      \* mutant
\* XLogUtil::writeLog takes its mutex, and gives it back when XLogger is done.
lock(t) == IF util THEN mutex = NoUser /\ mutex' = t ELSE UNCHANGED mutex

\* What writeLog decides under m_mutex.
HasRoom == Len(buffer) + 1 < MaxLogBuffer
Keep(t, n) == buffer' = Append(buffer, n) /\ todo' = [todo EXCEPT ![t] = <<>>]
Put(t, steps) == todo' = [todo EXCEPT ![t] = steps] /\ UNCHANGED buffer

Begin(t, what) ==
    /\ todo[t] = <<>> /\ Len(says) < MaxTexts
    /\ text' = [text EXCEPT ![t] = Len(says) + 1]
    /\ says' = Append(says, what)
    /\ logged' = Append(logged, Len(says) + 1)
    /\ raced' = (raced \/ Busy)
    /\ UNCHANGED << util, pLogFile, file >>

\* writeLog that need not write at once.
writeLog(t) ==
    /\ ~util /\ Begin(t, Len(says) + 1)
    /\ IF HasRoom THEN Keep(t, Len(says) + 1) ELSE Put(t, Flush \o << "again" >>)
    /\ UNCHANGED << mutex, szText, mixed >>

\* It flushes if the file is open, as another call left it.
AtOnce(t) ==
    /\ lock(t)
    /\ mixed' = (mixed \/ buffer # <<>>)
    /\ Put(t, (IF pLogFile THEN Flush ELSE <<>>) \o WriteToFile)

\* writeLogToFile; XLogUtil::writeLog puts the text together in m_szText.
writeLogToFile(t) ==
    /\ Begin(t, Len(says) + 1)
    /\ szText' = IF util THEN Len(says) + 1 ELSE szText
    /\ AtOnce(t)

\* XLogUtil::writeString has a text too, and writes what m_szText holds.
writeString(t) ==
    /\ util /\ Begin(t, szText)
    /\ UNCHANGED szText
    /\ AtOnce(t)

flush(t) ==
    /\ todo[t] = <<>> /\ lock(t) /\ Put(t, Flush)
    /\ raced' = (raced \/ Busy)
    /\ UNCHANGED << util, pLogFile, file, text, says, szText, logged, mixed >>

\* clear truncates the file if another call has it open just then; otherwise, and so
\* always through XLogUtil, it does nothing.
clear(t) ==
    /\ ~util /\ todo[t] = <<>> /\ pLogFile
    /\ file' = <<>>
    /\ raced' = (raced \/ Busy)
    /\ UNCHANGED << util, mutex, pLogFile, buffer, todo, text, says, szText, logged, mixed >>

\* What is left to do, and with the last of it XLogUtil lets go of its mutex.
Left(t, steps) ==
    /\ todo' = [todo EXCEPT ![t] = steps]
    /\ mutex' = IF mutex = t /\ steps = <<>> THEN NoUser ELSE mutex
Next1(t) == Left(t, Tail(todo[t]))

openFile(t) ==
    /\ todo[t] # <<>> /\ Head(todo[t]) = "openFile"
    /\ pLogFile' = TRUE
    /\ Next1(t)
    /\ UNCHANGED << util, buffer, file, text, says, szText, logged, raced, mixed >>

\* fopen_s fails: there is no flush, and the text to be written at once, or for which
\* writeLog needed room, is gone (the last, unless calls of XLogger overlap).
openFails(t) ==
    /\ todo[t] # <<>> /\ Head(todo[t]) = "openFile"
    /\ pLogFile' = FALSE
    /\ Left(t, IF todo[t] = Flush \o WriteToFile THEN WriteToFile ELSE <<>>)
    /\ logged' = IF todo[t] \in {WriteToFile, Flush \o << "again" >>} THEN Front(logged) ELSE logged
    /\ UNCHANGED << util, buffer, file, text, says, szText, raced, mixed >>

writeFile(t) ==
    /\ todo[t] # <<>> /\ Head(todo[t]) = "writeFile"
    /\ IF pLogFile THEN file' = file \o buffer /\ buffer' = <<>> ELSE UNCHANGED << file, buffer >>
    /\ Next1(t)
    /\ UNCHANGED << util, pLogFile, text, says, szText, logged, raced, mixed >>

\* Without the mutex: nothing is said of a file that another call has closed.
fwrite(t) ==
    /\ todo[t] # <<>> /\ Head(todo[t]) = "fwrite" /\ pLogFile
    /\ file' = Append(file, text[t])
    /\ Next1(t)
    /\ UNCHANGED << util, pLogFile, buffer, text, says, szText, logged, raced, mixed >>

\* What is in the buffer by now is forgotten.
closeFile(t) ==
    /\ todo[t] # <<>> /\ Head(todo[t]) = "closeFile"
    /\ IF pLogFile THEN pLogFile' = FALSE /\ buffer' = <<>> ELSE UNCHANGED << pLogFile, buffer >>
    /\ Next1(t)
    /\ UNCHANGED << util, file, text, says, szText, logged, raced, mixed >>

\* writeLog once more, if flush found the buffer empty in the end.
again(t) ==
    /\ todo[t] = << "again" >>
    /\ IF buffer # <<>> THEN Put(t, <<>>)
       ELSE IF HasRoom THEN Keep(t, text[t]) ELSE Put(t, Flush \o << "again" >>)
    /\ UNCHANGED << util, mutex, pLogFile, file, text, says, szText, logged, raced, mixed >>

Next == \E t \in Users :
    \/ writeLog(t) \/ writeLogToFile(t) \/ writeString(t) \/ flush(t) \/ clear(t)
    \/ openFile(t) \/ openFails(t) \/ writeFile(t) \/ fwrite(t) \/ closeFile(t) \/ again(t)

Spec == Init /\ [][Next]_vars

--------------------------------------------------------------------------------
(***************************************************************************)
(* Properties.                                                             *)
(***************************************************************************)
TypeOK ==
    /\ mutex \in Users \cup {NoUser} /\ (mutex # NoUser => util /\ todo[mutex] # <<>>)
    /\ Len(buffer) < MaxLogBuffer
    /\ \A n \in Range(file \o buffer) : n \in 1..Len(says)

\* No text is lost, written twice or moved before an earlier one, except those for which
\* the file did not open: through XLogUtil whatever the threads do; with XLogger as long
\* as calls do not overlap and texts to be written at once do not come while others are
\* in the buffer.  The text is that of the call, or of writeString one from before it.
AllLogged ==
    /\ TypeOK
    /\ (util \/ ~(raced \/ mixed)) /\ ~Busy => file \o buffer = logged
    /\ \A n \in DOMAIN says : says[n] = n \/ (util /\ says[n] < n)
================================================================================
