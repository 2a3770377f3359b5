------------------------------ MODULE LogFormat ------------------------------
(***************************************************************************)
(* Logger::log() (ch06/common/logging.h), by which a component fills the   *)
(* queue of its Logger while the logger's thread empties it: a format is   *)
(* written character by character, with the arguments in place of its %    *)
(* signs; %% stands for a % sign.  A number of arguments that does not fit *)
(* is found out while writing, and ends the process.  A format is a        *)
(* sequence of "%" and of "c", any other character; the arguments are the  *)
(* numbers 1 .. numArgs.  The logger is destroyed after the call.          *)
(***************************************************************************)
EXTENDS Logger, Sequences, FiniteSets

CONSTANTS MaxLength, MaxArgs   \* bounds of the model on formats and arguments

ASSUME FormatAssumption == MaxLength \in Nat /\ MaxArgs \in Nat

VARIABLES
  format, numArgs,  \* the arguments of the first call
  s,                \* what is left of the format
  args,             \* what is left of the arguments, the first of them `value'
  out,              \* the elements pushed to the queue
  result            \* "none", "returned" or "FATAL"

callVars == <<format, numArgs, s, args, out, result>>
logVars == <<vars, callVars>>

Formats == UNION {[1 .. n -> {"%", "c"}] : n \in 0 .. MaxLength}

-----------------------------------------------------------------------------
\* *s and *(s + 1) are the start of an escape.
Escape == Len(s) > 1 /\ s[1] = "%" /\ s[2] = "%"
Placeholder == s # <<>> /\ s[1] = "%" /\ ~Escape

\* The elements pushValue() makes of a character and of an argument.
LogElement(char, arg) == [char |-> char, arg |-> arg]
Char(c) == LogElement(c, 0)
Arg(i) == LogElement("", i)

\* Mutant of PushChar: an escape is written as it is.
PushCharTwice ==
  /\ result = "none" /\ s # <<>> /\ ~Placeholder
  /\ PushValue
  /\ out' = IF Escape THEN out \o <<Char(s[1]), Char(s[2])>> ELSE Append(out, Char(s[1]))
  /\ s' = IF Escape THEN SubSeq(s, 3, Len(s)) ELSE Tail(s)
  /\ UNCHANGED <<format, numArgs, args, result>>

\* A character, or the second of an escape.
PushChar ==
  /\ result = "none" /\ s # <<>> /\ ~Placeholder
  /\ PushValue
  /\ out' = Append(out, Char(s[1]))
  /\ s' = IF Escape THEN SubSeq(s, 3, Len(s)) ELSE Tail(s)
  /\ UNCHANGED <<format, numArgs, args, result>>

\* pushValue(value), and log() of the rest.
PushArgument ==
  /\ result = "none" /\ Placeholder /\ args # <<>>
  /\ PushValue
  /\ out' = Append(out, Arg(Head(args)))
  /\ s' = Tail(s) /\ args' = Tail(args)
  /\ UNCHANGED <<format, numArgs, result>>

MissingArgs ==
  /\ result = "none" /\ Placeholder /\ args = <<>>
  /\ result' = "FATAL"
  /\ UNCHANGED <<vars, format, numArgs, s, args, out>>

\* Mutant of AtEnd: arguments that are left are not noticed.
AtEndAnyArgs ==
  /\ result = "none" /\ s = <<>>
  /\ result' = "returned"
  /\ UNCHANGED <<vars, format, numArgs, s, args, out>>

\* The end of the format: arguments are left, or log() returns.
AtEnd ==
  /\ result = "none" /\ s = <<>>
  /\ result' = IF args # <<>> THEN "FATAL" ELSE "returned"
  /\ UNCHANGED <<vars, format, numArgs, s, args, out>>

LogInit ==
  /\ Init
  /\ format \in Formats /\ numArgs \in 0 .. MaxArgs
  /\ s = format /\ args = [i \in 1 .. numArgs |-> i]
  /\ out = <<>> /\ result = "none"

\* The logger goes on until the process ends, and is destroyed when the call returned.
LoggerThread == result # "FATAL" /\ FlushQueue /\ UNCHANGED callVars
LoggerEnds == result = "returned" /\ Destructor /\ UNCHANGED callVars
LoggerDestroyed == result = "returned" /\ Destroy /\ UNCHANGED callVars

LogNext ==
  \/ PushChar \/ PushArgument \/ MissingArgs \/ AtEnd
  \/ LoggerThread \/ LoggerEnds \/ LoggerDestroyed

\* The logger thread runs, and so does the thread that destroys the logger.
LogSpec ==
  /\ LogInit /\ [][LogNext]_logVars
  /\ WF_logVars(LoggerThread) /\ WF_logVars(LoggerEnds)

-----------------------------------------------------------------------------
\* The lengths of the maximal runs of % signs, by the place of their last one.
RunLength(i) ==
  CHOOSE k \in 1 .. i : /\ \A j \in i - k + 1 .. i : format[j] = "%"
                        /\ k = i \/ format[i - k] # "%"
RunEnds == {i \in DOMAIN format : format[i] = "%" /\ (i = Len(format) \/ format[i + 1] # "%")}
Placeholders == Cardinality({i \in RunEnds : RunLength(i) % 2 = 1})

\* "Extra args provided to log()", "missing args to log()" (logging.h:197, :208): the
\* process ends for these reasons, and when and only when the arguments are as many as
\* the runs of an odd number of % signs the call returns.
FitsOrFatal ==
  /\ result = "returned" => numArgs = Placeholders
  /\ result = "FATAL" => numArgs # Placeholders

\* A call that returns has written each argument once and in order, the n-th element that is
\* an argument being the n-th one, and of an escape one of the two % signs.
Percents == Cardinality({i \in DOMAIN format : format[i] = "%"})
ArgsOut(n) == {i \in 1 .. n : out[i].arg # 0}
PercentsOut == {i \in DOMAIN out : out[i].char = "%"}
WritesAll ==
  result = "returned" =>
    /\ Cardinality(ArgsOut(Len(out))) = numArgs
    /\ \A i \in ArgsOut(Len(out)) : out[i].arg = Cardinality(ArgsOut(i))
    /\ 2 * Cardinality(PercentsOut) = Percents - numArgs
=============================================================================
