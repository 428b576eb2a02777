-------------------------------- MODULE Logger --------------------------------
(***************************************************************************)
(* Logger (include/vdb/logging.hpp): one object for the process, which     *)
(* writes lines to a main log and anomalies also to a log of their own,    *)
(* and rotates a file that has grown to max_file_size.  Everything happens *)
(* under mutex_ except the first look at initialized_: two threads may     *)
(* both find it unset and both initialize.                                 *)
(*                                                                         *)
(* std::ofstream::open of a stream that is already open fails and leaves   *)
(* failbit set: nothing is written, and the size the stream tells is -1,   *)
(* the largest size_t.                                                     *)
(***************************************************************************)
EXTENDS Integers, Sequences, SequencesExt

CONSTANTS Threads,
          MaxSize,    \* max_file_size, in lines
          MaxBackups, \* max_backup_files
          MaxLines    \* bound: lines logged

VARIABLES
    initialized,
    pc,      \* per thread: outside, or past its look at initialized_
    stream,  \* state of log_file_ and anomaly_file_
    files,   \* per log: the lines of the file (0) and of its backups (1, 2, ...)
    logged,  \* history: lines that reached the log's stream while it was sound
    lost     \* history: how many did not

Logs == {"main", "anomalies"}
vars == <<initialized, pc, stream, files, logged, lost>>

Empty == [i \in 0 .. MaxBackups + 1 |-> <<>>]

Init == /\ initialized = FALSE
        /\ pc = [t \in Threads |-> "idle"]
        /\ stream = [f \in Logs |-> "closed"]
        /\ files = [f \in Logs |-> Empty]
        /\ logged = [f \in Logs |-> <<>>]
        /\ lost = [f \in Logs |-> 0]

------------------------------------------------------------------------------
Opened(state) == IF state = "closed" THEN "sound" ELSE "failed"

\* initialize, called by the program, more than once perhaps, or by the first line
\* logged: a stream that is open fails to open again.
Initialize == /\ initialized' = TRUE
              /\ stream' = [f \in Logs |-> Opened(stream[f])]
              /\ UNCHANGED <<files, logged, lost>>

InitializeCalled == Initialize /\ UNCHANGED pc

Look(t) == /\ pc[t] = "idle"
           /\ pc' = [pc EXCEPT ![t] = IF initialized THEN "writing" ELSE "initializing"]
           /\ UNCHANGED <<initialized, stream, files, logged, lost>>

InitializeLazily(t) == /\ pc[t] = "initializing"
                       /\ Initialize
                       /\ pc' = [pc EXCEPT ![t] = "writing"]

\* What the stream says of the file's size, in a file that now has these lines.
Full(state, lines) == state = "failed" \/ Len(lines) >= MaxSize

\* rotate_file: the backups move up by one, the last of them gives way, and
\* the file becomes the first.  With max_backup_files 0 or 1 there is one.
\* (Backup i exists when backup i + 1 does; a missing one reads as empty.)
RotatedShort(old) ==   \* mutant of Rotated: the loop stops one backup early
    [i \in DOMAIN old |-> IF i = 0 THEN <<>>
                          ELSE IF i = 1 THEN old[0]
                          ELSE IF i < MaxBackups THEN old[i - 1]
                          ELSE old[i]]

Rotated(old) ==
    [i \in DOMAIN old |-> IF i = 0 THEN <<>>
                          ELSE IF i = 1 THEN old[0]
                          ELSE IF i <= MaxBackups THEN old[i - 1]
                          ELSE old[i]]

WriteToUnrotated(f, line, rotates) ==   \* mutant of WriteTo: a failed stream is left alone
    LET sound == stream[f] = "sound"
        now == IF sound THEN [files[f] EXCEPT ![0] = Append(@, line)] ELSE files[f]
        rotate == rotates /\ sound /\ Full(stream[f], now[0])
    IN  [file |-> IF rotate THEN Rotated(now) ELSE now,
         stream |-> stream[f],
         logged |-> IF sound THEN Append(logged[f], line) ELSE logged[f],
         lost |-> IF sound THEN lost[f] ELSE lost[f] + 1]

\* One line to a log: written if the stream is sound, and the file rotated,
\* if this call looks at its size at all, which opens it anew.
WriteTo(f, line, rotates) ==
    LET sound == stream[f] = "sound"
        now == IF sound THEN [files[f] EXCEPT ![0] = Append(@, line)] ELSE files[f]
        rotate == rotates /\ Full(stream[f], now[0])
    IN  [file |-> IF rotate THEN Rotated(now) ELSE now,
         stream |-> IF rotate THEN "sound" ELSE stream[f],
         logged |-> IF sound THEN Append(logged[f], line) ELSE logged[f],
         lost |-> IF sound THEN lost[f] ELSE lost[f] + 1]

Lines == Len(logged["main"]) + lost["main"]   \* every line goes to the main log

\* log looks at the size of the main log; log_anomaly writes to both and looks
\* at that of the anomalies only.
Write(t, anomaly) ==
    /\ pc[t] = "writing"
    /\ Lines < MaxLines
    /\ LET main == WriteTo("main", Lines + 1, ~anomaly)
           anomalies == IF anomaly THEN WriteTo("anomalies", Lines + 1, TRUE)
                        ELSE [file |-> files["anomalies"], stream |-> stream["anomalies"],
                              logged |-> logged["anomalies"], lost |-> lost["anomalies"]]
           of == [f \in Logs |-> IF f = "main" THEN main ELSE anomalies]
       IN  /\ files' = [f \in Logs |-> of[f].file]
           /\ stream' = [f \in Logs |-> of[f].stream]
           /\ logged' = [f \in Logs |-> of[f].logged]
           /\ lost' = [f \in Logs |-> of[f].lost]
    /\ pc' = [pc EXCEPT ![t] = "idle"]
    /\ UNCHANGED initialized

Next == \/ InitializeCalled
        \/ \E t \in Threads : \/ Look(t) \/ InitializeLazily(t)
                              \/ \E anomaly \in BOOLEAN : Write(t, anomaly)

Spec == Init /\ [][Next]_vars

------------------------------------------------------------------------------
\* The lines of a log that can still be read, the oldest backup first.
Kept(f) == FlattenSeq([i \in 1 .. MaxBackups + 2 |-> files[f][MaxBackups + 2 - i]])

\* Rotation gives up the oldest lines only: what can be read is, in order and
\* without a gap, the end of what was written, and holds as much as the
\* backups have room for, less a file for each line lost.
LastLinesKept == \A f \in Logs : /\ IsSuffix(Kept(f), logged[f])
                                 /\ \/ Kept(f) = logged[f]
                                    \/ Len(Kept(f)) >= (MaxBackups - lost[f]) * MaxSize

\* Every extra initialization costs a log at most the lines until log next
\* looks at it: a line of log finds the main log sound or makes it sound.
LogHeals == \A t \in Threads : Write(t, FALSE) => stream'["main"] = "sound"
==============================================================================
