SPECIFICATION Spec
PROPERTIES ScriptTags SqlTags FortranTags OCamlTags EiffelTags ObjCTags PythonTags HardwareTags LineParsersTags CppDelivers
CHECK_DEADLOCK FALSE
