------------------------------ MODULE Shaders ------------------------------
(***************************************************************************)
(* The shader variants of hooks/opengl.c (lines 33-55): the game makes the *)
(* variants of a pixel shader by putting entries of four string arrays of  *)
(* its library in the place of keywords; patch_opengl copies arrays of Cg  *)
(* strings over three of them, and the fourth is as good in Cg.  The       *)
(* templates with the keywords are data/maxpayne/es2.  Which entries it    *)
(* takes is the game's choice, the same for the keywords SETFRAGCOLOR and  *)
(* PREFIX, which come in pairs.                                            *)
(*                                                                         *)
(* Of a text only the names count that it declares and those that it uses. *)
(***************************************************************************)
EXTENDS Naturals, Sequences

(* A piece of text: its language and its names.                            *)
Text(lang, declares, uses) == [lang |-> lang, declares |-> declares, uses |-> uses]
Nothing == Text("any", {}, {})

(* The keywords and uniforms of the pixel shaders.                         *)
Template(keywords, declares, uses) ==
  [keywords |-> keywords, body |-> Text("Cg", declares, uses)]

Templates ==
  LET surface == Template({"MIPMAP", "PREFIX", "SETFRAGCOLOR", "ALPHAKILL"},
                          {"Diffuse", "AlphaRef"}, {"Diffuse", "TEX2D_MIPSAMPLE", "gl_FragColor"})
  IN [ DefaultPixel |-> surface,
       DynamicPixel |-> surface,
       LightmapPixel |-> [surface EXCEPT !.body.declares = @ \union {"Lightmap"},
                                         !.body.uses = @ \union {"Lightmap"}],
       SkinnedPixel |-> [surface EXCEPT !.keywords = @ \ {"ALPHAKILL"},
                                        !.body.declares = @ \ {"AlphaRef"}],
       ParticlePixel |-> Template({"PREFIX", "SETFRAGCOLOR"},
                                  {"Diffuse"}, {"Diffuse", "gl_FragColor"}),
       HighPassPixel |-> Template({}, {"Diffuse", "ColorMult"}, {"Diffuse", "ColorMult"}),
       RenderBloomPixel |-> Template({}, {"Diffuse"}, {"Diffuse"}),
       ScenePixel |-> Template({}, {"Diffuse", "ColorMult", "ColorAdd"},
                                   {"Diffuse", "ColorMult", "ColorAdd"}),
       SceneBloomPixel |->
         Template({}, {"Diffuse", "Lightmap", "ColorMult", "ColorAdd"},
                      {"Diffuse", "Lightmap", "ColorMult", "ColorAdd"}) ]

(* Mutant: one of the strings has lost its definition.                     *)
cg_mipmapReplace_short ==
  << Text("Cg", {"TEX2D_MIPSAMPLE"}, {}), Text("Cg", {}, {}),
     Text("Cg", {"TEX2D_MIPSAMPLE"}, {}) >>

cg_mipmapReplace == [i \in 1 .. 3 |-> Text("Cg", {"TEX2D_MIPSAMPLE"}, {})]

cg_fragColorReplace ==
  << Text("Cg", {"gl_FragColor"}, {}), Text("Cg", {"gl_FragColor"}, {"ColorAdd"}) >>

cg_colorReplace == << Nothing, Text("Cg", {"ColorAdd"}, {}) >>

alphaTestReplace == << Nothing, Text("any", {}, {"AlphaRef", "gl_FragColor"}) >>

VARIABLES
  pc,      \* the arrays that are still to be replaced
  arrays,  \* the string arrays of the library, by keyword
  shader,  \* the variant the game compiled last
  choice   \* what it was made of: the template and the entries

vars == <<pc, arrays, shader, choice>>

(* The strings of the game are GLSL.                                       *)
Glsl(array) == [i \in DOMAIN array |-> [array[i] EXCEPT !.lang = "GLSL"]]

Init ==
  /\ pc = <<"MIPMAP", "SETFRAGCOLOR", "PREFIX">>
  /\ arrays = [ MIPMAP |-> Glsl(cg_mipmapReplace),
                SETFRAGCOLOR |-> Glsl(cg_fragColorReplace),
                PREFIX |-> Glsl(cg_colorReplace),
                ALPHAKILL |-> alphaTestReplace ]
  /\ shader = << >>
  /\ choice = << >>

Cg == [ MIPMAP |-> cg_mipmapReplace, SETFRAGCOLOR |-> cg_fragColorReplace,
        PREFIX |-> cg_colorReplace ]

(* One memcpy of patch_opengl.                                             *)
patch_opengl ==
  /\ pc # << >>
  /\ arrays' = [arrays EXCEPT ![Head(pc)] = Cg[Head(pc)]]
  /\ pc' = Tail(pc)
  /\ UNCHANGED <<shader, choice>>

(* The game, which runs only when main has patched it, makes a variant.    *)
Compile(name, mip, color, alpha) ==
  LET entry == [ MIPMAP |-> mip, SETFRAGCOLOR |-> color, PREFIX |-> color, ALPHAKILL |-> alpha ]
      template == Templates[name]
  IN  /\ pc = << >>
      /\ shader' = [k \in template.keywords |-> arrays[k][entry[k]]]
      /\ choice' = <<name, mip, color, alpha>>
      /\ UNCHANGED <<pc, arrays>>

Next ==
  \/ patch_opengl
  \/ \E name \in DOMAIN Templates, mip \in 1 .. 3, color \in 1 .. 2, alpha \in 1 .. 2 :
       Compile(name, mip, color, alpha)

Spec == Init /\ [][Next]_vars

-----------------------------------------------------------------------------
Compiled == choice # << >>
Body == Templates[choice[1]].body
Pieces == {shader[k] : k \in DOMAIN shader} \union {Body}
Declared == UNION {p.declares : p \in Pieces}
Used == UNION {p.uses : p \in Pieces}

(* The variables keep to their types.                                      *)
TypeOK ==
  /\ DOMAIN arrays = {"MIPMAP", "SETFRAGCOLOR", "PREFIX", "ALPHAKILL"}
  /\ Len(arrays.MIPMAP) = 3
  /\ \A k \in DOMAIN arrays \ {"MIPMAP"} : Len(arrays[k]) = 2

(* Every variant of every pixel shader compiles as far as its names go:    *)
(* what it uses - the sampling macro, the colour it adds, the reference of *)
(* the alpha test - is declared in it, exactly once.                       *)
VariantsDeclareWhatTheyUse ==
  Compiled =>
    /\ Used \subseteq Declared
    /\ \A p, q \in Pieces : p # q => p.declares \intersect q.declares = {}

(* No variant mixes the game's GLSL with the Cg of its template.           *)
VariantsAreCg == Compiled => \A p \in Pieces : p.lang # "GLSL"

(* A variant that is to add a colour does, and no other has it as uniform. *)
ColorIsAddedOnDemand ==
  Compiled /\ "PREFIX" \in DOMAIN shader =>
    LET wanted == choice[3] = 2
    IN  ("ColorAdd" \in Used <=> wanted) /\ ("ColorAdd" \in Declared <=> wanted)
=============================================================================
