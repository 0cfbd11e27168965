CONSTANTS
    none = none
    all = all
    tech = tech
    a = a
    Feed = {tech}
    KeyOf <- MCKeyOf
    Key = {tech}
    WarmKey = {tech}
    Limit = {5, 20}
    Request = {a}
    MaxVersion = 1
SPECIFICATION Spec
INVARIANT DefaultPageIsDefault
