------------------------------ MODULE LibcApi ------------------------------
(***************************************************************************)
(* frida_resolve_libc_apis () of src/src/linux/helpers/bootstrapper.c: the *)
(* functions that the loader calls are collected from the exports of the   *)
(* target's C library, of its dynamic linker or of libpthread.             *)
(*                                                                         *)
(* A symbol table may hold any of the names, in any order.  Of the eleven  *)
(* functions that are looked up by one name in one place, Basic stands for *)
(* all.                                                                    *)
(***************************************************************************)
EXTENDS Integers, FiniteSets

CONSTANTS Basic

Thread == {"pthread_create", "pthread_detach"}
Dl == {"dlopen", "dlclose", "dlsym", "dlerror"}
Api == Basic \cup Thread \cup Dl

ConstantsOK == Basic \cap (Thread \cup Dl) = {}

\* The other names that are looked for: of old C libraries, and of Android's linker.
Old == {"__libc_dlopen_mode", "__libc_dlclose", "__libc_dlsym"}
OldName == [f \in {"dlopen", "dlclose", "dlsym"} |->
    CASE f = "dlopen" -> "__libc_dlopen_mode"
      [] f = "dlclose" -> "__libc_dlclose"
      [] f = "dlsym" -> "__libc_dlsym"]

VARIABLES
    android,        \* layout->rtld_flavor is FRIDA_RTLD_ANDROID
    exports,        \* what is left of the table that is being enumerated
    api,            \* the functions found so far
    mode,           \* dlopen_flags has FRIDA_GLIBC_RTLD_DLOPEN
    total_missing,
    step

vars == <<android, exports, api, mode, total_missing, step>>

Init ==
    /\ android \in BOOLEAN
    /\ exports \in SUBSET (Api \cup Old)
    /\ api = {} /\ mode = FALSE /\ step = "libc"
    /\ total_missing = Cardinality(Api) - (IF android THEN Cardinality(Dl) ELSE 0)

\* The function that a symbol of the C library is taken for, if any.
Meaning(symbol) ==
    IF symbol \in Basic \cup Thread THEN {symbol}
    ELSE IF android THEN {}
    ELSE {f \in Dl : f = symbol \/ (f \in DOMAIN OldName /\ OldName[f] = symbol)}

\* frida_collect_libc_symbol (): the first symbol of a function counts.
Collect(symbol) ==
    /\ api' = api \cup Meaning(symbol)
    /\ total_missing' = total_missing - Cardinality(Meaning(symbol) \ api)
    /\ mode' = (mode \/ (symbol = "__libc_dlopen_mode" /\ Meaning(symbol) \ api # {}))

\* frida_elf_enumerate_exports () of the C library, until nothing is missing.
EnumerateLibc ==
    /\ step = "libc"
    /\ \E symbol \in exports : Collect(symbol) /\ exports' = exports \ {symbol}
    /\ step' = IF total_missing' > 0 THEN "libc" ELSE "check"
    /\ UNCHANGED android

LibcEnd ==
    /\ step = "libc" /\ exports = {} /\ step' = "check"
    /\ UNCHANGED <<android, exports, api, mode, total_missing>>

\* An old C library has no dlerror ().
Excused == IF total_missing > 0 /\ mode /\ "dlerror" \notin api THEN 1 ELSE 0

\* The checks after it: libpthread is opened for the thread functions, if nothing else is missing,
\* and either may not be there.
Check ==
    /\ step = "check"
    /\ LET missing == total_missing - Excused
           threads == missing = 2 /\ Thread \cap api = {}
       IN  \E found \in (IF threads THEN SUBSET Thread ELSE {{}}) :
              /\ api' = api \cup found
              /\ total_missing' = missing - Cardinality(found)
              /\ step' = IF total_missing' # 0 THEN "unsupported"
                         ELSE IF android THEN "linker" ELSE "resolved"
    /\ UNCHANGED <<android, exports, mode>>

\* frida_collect_android_linker_symbol () on the linker's exports; on its file's symbols when it exports none of them.  All are found or none,
\* and when none is, the helper takes the addresses from its own linker, if it is the same.
EnumerateLinker ==
    /\ step = "linker"
    /\ \E exported, symbols \in SUBSET Dl :
          api' = api \cup (IF exported = {} THEN symbols ELSE exported)
    /\ total_missing' = Cardinality(Dl \ api')
    /\ step' = CASE total_missing' = 0 -> "resolved"
                 [] total_missing' = Cardinality(Dl) -> "rebase"
                 [] OTHER -> "unsupported"
    /\ UNCHANGED <<android, exports, mode>>

\* bootstrap () of the helper: the linker of the target is its own, or there is no support.
Rebase ==
    /\ step = "rebase"
    /\ \/ step' = "resolved" /\ api' = api \cup Dl
       \/ step' = "unsupported" /\ UNCHANGED api
    /\ UNCHANGED <<android, exports, mode, total_missing>>

Next == EnumerateLibc \/ LibcEnd \/ Check \/ EnumerateLinker \/ Rebase

Spec == Init /\ [][Next]_vars
-----------------------------------------------------------------------------
\* The loader is started only with every function it may call: in whichever order the tables list
\* their symbols, none is missing but the dlerror () of an old C library, which it checks for.
ResolvedIsComplete ==
    step = "resolved" => Api \ api \subseteq (IF mode THEN {"dlerror"} ELSE {})

\* total_missing is the number of functions that were not found, so that no symbol that is listed
\* under two names hides one that is missing.
CountIsExact ==
    step = "libc" => total_missing = Cardinality((IF android THEN Api \ Dl ELSE Api) \ api)
=============================================================================
