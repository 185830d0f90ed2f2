------------------------------ MODULE MCImporter ------------------------------
(***************************************************************************)
(* The importer on its real tables, restricted to the content types and    *)
(* the letters a configuration names.                                      *)
(***************************************************************************)
EXTENDS Importer

KT == INSTANCE KindTables

OnLetters(table) == [l \in DOMAIN table \cap Letters |-> table[l]]

MCTranslated == Utis \cap KT!TranslatedUtis
MCForce      == [u \in MCTranslated |-> KT!getNamedLanguage(KT!RowOf(u)[2])]
MCLangId     == [u \in MCTranslated |-> KT!RowOf(u)[3]]
MCLanguages  == {MCForce[u] : u \in MCTranslated}
                  \cup (NameLanguages \ {LANG_IGNORE})
                  \cup (ConfigLanguages \ {LANG_AUTO, NoForce})
MCIds        == MCLanguages \cup {MCLangId[u] : u \in MCTranslated}
MCBuilders   == [id \in MCIds |-> OnLetters(KT!assocBuilders[id])]
MCEmitted    == [id \in MCLanguages |-> KT!parserKinds[id] \cap Letters]
MCCharCode   == [l \in Letters |-> KT!CharCode[l]]

\* The kinds the languages of the run use, and the one a zeroed cell means.
MCKinds == UNION {{MCBuilders[id][l] : l \in DOMAIN MCBuilders[id]} : id \in MCIds}
             \cup {"Functions"}

\* ctxt is a zero-filled global and kindFunctions is 0; what shares the
\* words past its end may have left kindUNVALID or the last kind there.
ZeroedJunk == {"Functions"}
AnyJunk    == {"Functions", kindUNVALID}
C          == 6
Python     == 27
NoName     == {LANG_IGNORE}
CName      == {LANG_IGNORE, C}
PythonName == {LANG_IGNORE, Python}
ResetJunk  == {kindUNVALID}
NoConfig   == {NoForce}
SomeConfig == {NoForce, Python}

\* ctags' tables.  Three languages: words in both orders and in one bucket, a
\* language without patterns below one with, and one that only options give some.
MCWords == {"class", "int", "end"}
MCHash == [w \in MCWords |-> IF w = "end" THEN 1 ELSE 0]
MCKeywords ==
  [l \in 0 .. 2 |-> CASE l = 0 -> << "int", "class" >> [] l = 1 -> << "class", "end" >>
                      [] OTHER -> << >>]
MCPatterns == [l \in 0 .. 2 |-> IF l = 1 THEN << "p", "q" >> ELSE << >>]
\* No options, and all that can happen to a set: it grows, is cleared below others,
\* and is added to before and after.
ManyOptions ==
  { << >>, << << 2, "r" >>, << 1, Cleared >>, << 0, "r" >>, << 2, "s" >>, << 1, "s" >> >> }
NoOptions == { << >> }
===============================================================================
