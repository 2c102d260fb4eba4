------------------------------ MODULE Imports ------------------------------
(***************************************************************************)
(* The import table (imports.c, lines 336-633): what the game's calls to   *)
(* its C, thread and GL libraries end up in.                               *)
(*                                                                         *)
(* Several libraries stand behind the table: the console's C library, by   *)
(* its bridge; newlib, which the launcher itself uses; vitaGL; the shims   *)
(* of imports.c; and stubs that do nothing.  An object - a file, a block,  *)
(* a mutex - means something only to the library that made it.  Symbols    *)
(* that take no object (mathematics, strings) are left out.                *)
(*                                                                         *)
(* update_imports adapts the table to the settings, so_resolve binds the   *)
(* game to it, and then the game calls what it was bound to, or what       *)
(* eglGetProcAddress - vglGetProcAddress, bound as it is - gives it, which *)
(* is vitaGL's own function whatever the table says.                       *)
(***************************************************************************)
EXTENDS Naturals, Sequences, FiniteSets

CONSTANTS
  Levels,    \* mip levels of a texture, among them 0
  Filters,   \* what GL_TEXTURE_MIN_FILTER may be set to
  MaxLive    \* bound on the objects alive at a time

ImportsAssumption ==
  /\ 0 \in Levels /\ Levels \subseteq Nat
  /\ {"NEAREST_MIPMAP_LINEAR", "LINEAR_MIPMAP_NEAREST",
      "LINEAR_MIPMAP_LINEAR"} \subseteq Filters
  /\ MaxLive \in Nat

(* A run of entries whose functions are of one library.                    *)
Entries(lib, names) ==
  [i \in DOMAIN names |-> [symbol |-> names[i], lib |-> lib, hook |-> FALSE]]

(* main has pointed stderr_fake to newlib's stderr before the game runs.   *)
StreamImports == Entries("fake", <<"__sF">>) \o Entries("newlib", <<"stderr">>)

AssetImports ==
  Entries("stub", <<"AAssetManager_open", "AAsset_close", "AAsset_read", "AAsset_seek">>)

(* Threads are newlib's: pthread_create_fake passes its call on to newlib, *)
(* without the attributes.                                                 *)
HostThreads == Entries("newlib", <<"pthread_create", "pthread_join", "pthread_self">>)

ThreadImports ==
  Entries("stub", <<"pthread_key_create", "pthread_key_delete",
                    "pthread_getspecific", "pthread_setspecific">>)
  \o Entries("shim", <<"pthread_cond_broadcast", "pthread_cond_destroy",
                       "pthread_cond_init", "pthread_cond_signal",
                       "pthread_cond_timedwait", "pthread_cond_wait">>)
  \o HostThreads
  \o Entries("stub", <<"pthread_setschedparam", "pthread_mutexattr_init",
                       "pthread_mutexattr_settype", "pthread_mutexattr_destroy">>)
  \o Entries("shim", <<"pthread_mutex_destroy", "pthread_mutex_init",
                       "pthread_mutex_lock", "pthread_mutex_unlock", "pthread_once",
                       "sem_destroy", "sem_init", "sem_post", "sem_trywait", "sem_wait">>)

BlockImports == Entries("newlib", <<"calloc", "free", "malloc", "realloc">>)

(* Mutant: files are closed by newlib.                                     *)
FileImportsMixed ==
  Entries("bridge", <<"fopen">>) \o Entries("newlib", <<"fclose", "fprintf">>)
  \o Entries("bridge", <<"fread", "fseek", "ftell", "fwrite", "ferror", "feof">>)

FileImports ==
  Entries("bridge", <<"fopen", "fclose">>) \o Entries("newlib", <<"fprintf">>)
  \o Entries("bridge", <<"fread", "fseek", "ftell", "fwrite", "ferror", "feof">>)

(* The launcher's own, which make the name 0 and do nothing else.          *)
RenderbufferStubs ==
  {"glGenRenderbuffers", "glDeleteRenderbuffers", "glFramebufferRenderbuffer",
   "glRenderbufferStorage", "glBindRenderbuffer"}

GLNames ==
  <<"glBindFramebuffer", "glBindRenderbuffer", "glBindTexture",
    "glCompressedTexImage2D", "glDeleteFramebuffers", "glDeleteRenderbuffers",
    "glDeleteTextures", "glFramebufferRenderbuffer", "glFramebufferTexture2D",
    "glGenFramebuffers", "glGenRenderbuffers", "glGenTextures",
    "glRenderbufferStorage", "glTexParameterf", "glTexParameteri">>

GLImports ==
  [i \in DOMAIN GLNames |->
    [symbol |-> GLNames[i], hook |-> FALSE,
     lib |-> IF GLNames[i] \in RenderbufferStubs THEN "stub" ELSE "vitaGL"]]

DescriptorImports == Entries("newlib", <<"close", "lseek", "open", "read", "write">>)

SystemImports ==
  StreamImports \o AssetImports \o ThreadImports \o BlockImports \o FileImports

RemainingImports == GLImports \o DescriptorImports

dynlib_functions == SystemImports \o RemainingImports

(* What the symbols do with objects: which kind they make, end and use.    *)
Makes == [ file |-> "fopen", block |-> "malloc", descriptor |-> "open",
           mutex |-> "pthread_mutex_init", cond |-> "pthread_cond_init",
           semaphore |-> "sem_init", thread |-> "pthread_create",
           key |-> "pthread_key_create", asset |-> "AAssetManager_open",
           texture |-> "glGenTextures", framebuffer |-> "glGenFramebuffers",
           renderbuffer |-> "glGenRenderbuffers" ]

Ends == [ file |-> "fclose", block |-> "free", descriptor |-> "close",
          mutex |-> "pthread_mutex_destroy", cond |-> "pthread_cond_destroy",
          semaphore |-> "sem_destroy", thread |-> "pthread_join",
          key |-> "pthread_key_delete", asset |-> "AAsset_close",
          texture |-> "glDeleteTextures", framebuffer |-> "glDeleteFramebuffers",
          renderbuffer |-> "glDeleteRenderbuffers" ]

(* The bridge declares all of these, and so does newlib.                   *)
FileFunctions == {"fread", "fseek", "ftell", "fwrite", "ferror", "feof", "fprintf"}

Uses == [ file |-> FileFunctions,
          block |-> {"realloc"}, descriptor |-> {"lseek", "read", "write"},
          mutex |-> {"pthread_mutex_lock", "pthread_mutex_unlock"},
          cond |-> {"pthread_cond_wait", "pthread_cond_signal"},
          semaphore |-> {"sem_post", "sem_trywait", "sem_wait"},
          thread |-> {"pthread_setschedparam"},
          key |-> {"pthread_getspecific", "pthread_setspecific"},
          asset |-> {"AAsset_read", "AAsset_seek"}, texture |-> {"glBindTexture"},
          framebuffer |-> {"glBindFramebuffer"},
          renderbuffer |-> {"glBindRenderbuffer", "glRenderbufferStorage",
                            "glFramebufferRenderbuffer"} ]

Kinds == DOMAIN Makes

(* How the game comes by a function, and those that set the filter.        *)
Ways == {"import", "eglGetProcAddress"}
FilterSetters == {"glTexParameteri", "glTexParameterf"}

VARIABLES
  pc,       \* "update", "resolve" or "run"
  config,   \* the settings that matter here
  table,    \* dynlib_functions
  bound,    \* what so_resolve bound a symbol to
  live,     \* the objects of the game: [kind, lib]
  last,     \* the last call: [symbol, lib, object]
  uploaded, \* the levels of compressed textures vitaGL was given
  filter,   \* the filter vitaGL was given for a texture
  asked,    \* history: the levels the game uploaded, and by which way
  wanted    \* history: the filter the game set, with what and by which way

gl == <<uploaded, filter, asked, wanted>>
vars == <<pc, config, table, bound, live, last, gl>>

NoCall == [symbol |-> "none", lib |-> "none", object |-> [kind |-> "none", lib |-> "none"]]
FakeStream == [kind |-> "file", lib |-> bound["__sF"].lib]
StderrStream == [kind |-> "file", lib |-> bound["stderr"].lib]

Init ==
  /\ pc = "update"
  /\ config \in [disable_mipmaps : BOOLEAN, trilinear_filter : BOOLEAN]
  /\ table = dynlib_functions
  /\ bound = << >>
  /\ live = {} /\ last = NoCall
  /\ uploaded = {} /\ asked = {}
  /\ filter = "NEAREST_MIPMAP_LINEAR"
  /\ wanted = [way |-> "import", symbol |-> "glTexParameteri", val |-> filter]

(* The first entry of that name.                                           *)
so_find_import(funcs, name) ==
  CHOOSE i \in DOMAIN funcs :
    /\ funcs[i].symbol = name
    /\ \A j \in 1 .. i - 1 : funcs[j].symbol # name

Hooked(funcs, name) == [funcs EXCEPT ![so_find_import(funcs, name)].hook = TRUE]

(* Mutant: the two settings are taken for each other.                      *)
update_imports_swapped ==
  /\ pc = "update" /\ pc' = "resolve"
  /\ LET mips == IF config.trilinear_filter
                 THEN Hooked(table, "glCompressedTexImage2D") ELSE table
     IN  table' = IF config.disable_mipmaps
                  THEN Hooked(mips, "glTexParameteri") ELSE mips
  /\ UNCHANGED <<config, bound, live, last, gl>>

update_imports ==
  /\ pc = "update" /\ pc' = "resolve"
  /\ LET mips == IF config.disable_mipmaps
                 THEN Hooked(table, "glCompressedTexImage2D") ELSE table
     IN  table' = IF config.trilinear_filter
                  THEN Hooked(mips, "glTexParameteri") ELSE mips
  /\ UNCHANGED <<config, bound, live, last, gl>>

so_resolve ==
  /\ pc = "resolve" /\ pc' = "run"
  /\ bound' = [name \in {table[i].symbol : i \in DOMAIN table} |->
                 table[so_find_import(table, name)]]
  /\ UNCHANGED <<config, table, live, last, gl>>

-----------------------------------------------------------------------------
Running == pc = "run" /\ UNCHANGED <<pc, config, table, bound>>

Call(symbol, object) ==
  last' = [symbol |-> symbol, lib |-> bound[symbol].lib, object |-> object]

(* The game makes an object, uses it and ends it.                          *)
Make(kind) ==
  /\ Running
  /\ Cardinality(live) < MaxLive
  /\ LET object == [kind |-> kind, lib |-> bound[Makes[kind]].lib]
     IN  live' = live \union {object} /\ Call(Makes[kind], object)
  /\ UNCHANGED gl

Use(object) ==
  /\ Running
  /\ \E symbol \in Uses[object.kind] : Call(symbol, object)
  /\ UNCHANGED <<live, gl>>

End(object) ==
  /\ Running
  /\ live' = live \ {object}
  /\ Call(Ends[object.kind], object)
  /\ UNCHANGED gl

(* ReadDataFromPrivateStorage and OS_FileGetArchiveName give the game a    *)
(* block from the launcher's own malloc.                                   *)
GiveBlock ==
  /\ Running
  /\ Cardinality(live) < MaxLive
  /\ live' = live \union {[kind |-> "block", lib |-> "newlib"]}
  /\ UNCHANGED <<last, gl>>

(* The game prints to a stream of __sF or to stderr.                       *)
PrintToStream ==
  /\ Running
  /\ \E stream \in {FakeStream, StderrStream} : Call("fprintf", stream)
  /\ UNCHANGED <<live, gl>>

(* The function the game calls is the hook.                                *)
Replaced(way, symbol) == way = "import" /\ bound[symbol].hook

(* Through glCompressedTexImage2DHook, or directly.                        *)
CompressedTexImage(way, level) ==
  /\ Running
  /\ uploaded' = IF Replaced(way, "glCompressedTexImage2D") /\ level # 0
                 THEN uploaded ELSE uploaded \union {level}
  /\ asked' = asked \union {[way |-> way, level |-> level]}
  /\ UNCHANGED <<live, last, filter, wanted>>

(* Through glTexParameteriHook, or directly.                               *)
TexParameter(way, symbol, val) ==
  /\ Running
  /\ filter' = IF Replaced(way, symbol) /\ val = "LINEAR_MIPMAP_NEAREST"
               THEN "LINEAR_MIPMAP_LINEAR" ELSE val
  /\ wanted' = [way |-> way, symbol |-> symbol, val |-> val]
  /\ UNCHANGED <<live, last, uploaded, asked>>

Next ==
  \/ update_imports \/ so_resolve
  \/ \E kind \in Kinds : Make(kind)
  \/ \E object \in live : Use(object) \/ End(object)
  \/ GiveBlock \/ PrintToStream
  \/ \E way \in Ways, level \in Levels : CompressedTexImage(way, level)
  \/ \E way \in Ways, symbol \in FilterSetters, val \in Filters :
        TexParameter(way, symbol, val)

Spec == Init /\ [][Next]_vars

-----------------------------------------------------------------------------
(* What vitaGL was given is what the GL calls can give it, and the game's  *)
(* objects are of the libraries the table names.                           *)
TypeOK ==
  /\ uploaded \subseteq Levels /\ asked \subseteq [way : Ways, level : Levels]
  /\ filter \in Filters
  /\ wanted \in [way : Ways, symbol : FilterSetters, val : Filters]
  /\ \A object \in live : object.lib \in {"bridge", "newlib", "vitaGL", "shim", "stub"}

(* The last call handed an object to a function of another library, one   *)
(* that looks at it.                                                       *)
LeavesHome == last.lib \notin {last.object.lib, "stub"}

(* An object the game made, or was given by the launcher, is handed to a   *)
(* function of another library when the game prints to it, unless it is    *)
(* newlib's stderr, and at no other time: fprintf is newlib's, the files   *)
(* are the bridge's and __sF is nobody's.                                  *)
ObjectsStayHome ==
  LeavesHome <=> last.symbol = "fprintf" /\ last.object.lib # "newlib"

(* With mipmaps disabled vitaGL is given no level of a compressed texture  *)
(* but the first by the function the game imports, and otherwise all: the  *)
(* hook is in place when so_resolve binds the game, and only when its own  *)
(* setting asks for it.  The function eglGetProcAddress gives uploads all. *)
NoMipmaps ==
  \A level \in Levels :
    level \in uploaded <=>
      \E call \in asked :
        /\ call.level = level
        /\ config.disable_mipmaps /\ call.way = "import" => level = 0

(* Bilinear filtering is replaced when, and only when, the settings ask    *)
(* for it and the game sets it by the glTexParameteri it imports; any      *)
(* other filter arrives as the game set it, and so does this one by        *)
(* glTexParameterf or by a function eglGetProcAddress gave.                *)
Trilinear ==
  filter = IF /\ config.trilinear_filter
              /\ wanted = [way |-> "import", symbol |-> "glTexParameteri",
                           val |-> "LINEAR_MIPMAP_NEAREST"]
           THEN "LINEAR_MIPMAP_LINEAR" ELSE wanted.val
=============================================================================
